---- MODULE Spec2Model ----
(***************************************************************************)
(* A model of spipe, a compiler from a pipe-oriented SQL dialect           *)
(* ("stage |> stage |> ...") to plain SQL text: the lexer, the             *)
(* recursive-descent parser, the emitter, the checker, the diagnostics     *)
(* manager and the compile command that drives them.                       *)
(*                                                                         *)
(* Text is a TLA+ string; a byte offset of the Rust code is a 0-based      *)
(* index into it (every input of the model is ASCII, so bytes and chars    *)
(* coincide).  Option<T> is a sequence of length 0 (None) or 1 (Some).     *)
(* A Rust function that can end the process (report_and_exit, a panic)     *)
(* returns a result record whose field st says how it ended.  A message   *)
(* of the code that holds a backquote is written with a single quote.      *)
(***************************************************************************)
EXTENDS Integers, Sequences, FiniteSets, TLC

VARIABLES
  written,     \* the file as it was written: its stage texts and the separators between them
  source,      \* Source.raw, the text of the file being compiled
  pc,          \* the position of run_compile
  lexer,       \* the Lexer the Parser borrows: cursor, cached, range_start
  program,     \* Option<Program>: the statements parse() returned
  tables,      \* Checker.tables
  columns,     \* Checker.columns
  diagnostics, \* Checker.diagnostics.diagnostics
  next_stmt,   \* the index (from 1) of the statement Checker::check visits next
  stdout,      \* what the process has printed, in order
  exit_code,   \* Option<i32>: the exit status once the process has ended
  added,       \* the diagnostics handed to DiagnosticsManager::add by its caller, in call order
  calls        \* the calls a caller made on the Lexer, in order: the method and the Token it returned

vars == <<written, source, pc, lexer, program, tables, columns, diagnostics, next_stmt, stdout, exit_code, added, calls>>

None == <<>>
Some(v) == <<v>>
IsSome(o) == Len(o) = 1
Unwrap(o) == o[1]

(***************************************************************************)
(* utils/range.rs                                                          *)
(***************************************************************************)
Range(start, end) == [start |-> start, end |-> end]

RangeDefault == Range(0, 0)

range_from(left, right) == Range(left.start, right.end)

(***************************************************************************)
(* Results of the functions that can end the process.                      *)
(***************************************************************************)
Ok(lx, v) == [st |-> "ok", lx |-> lx, v |-> v, message |-> "", range |-> RangeDefault]

\* report_and_exit(message, range, source): one diagnostic, then exit(1).
report_and_exit(lx, message, range) ==
  [st |-> "fatal", lx |-> lx, v |-> None, message |-> message, range |-> range]

\* Option::unwrap() on None: the thread panics, the process ends with 101.
Panic(lx) ==
  [st |-> "panic", lx |-> lx, v |-> None, message |-> "called 'Option::unwrap()' on a 'None' value",
   range |-> RangeDefault]

(***************************************************************************)
(* lexer/token.rs                                                          *)
(***************************************************************************)
Token(kind, lexeme, range) == [kind |-> kind, lexeme |-> lexeme, range |-> range]

create_simple_token(kind, range) == Token(kind, None, range)

\* A faulty create_identifier: true and false are missing from the table.
create_identifier_without_booleans(range, text) ==
  CASE text = "SELECT" -> Token("Select", None, range)
    [] text = "FROM" -> Token("From", None, range)
    [] text = "WHERE" -> Token("Where", None, range)
    [] text = "ORDER" -> Token("Order", None, range)
    [] text = "BY" -> Token("By", None, range)
    [] text = "ASC" -> Token("Asc", None, range)
    [] text = "DESC" -> Token("Desc", None, range)
    [] text = "LIMIT" -> Token("Limit", None, range)
    [] text = "OFFSET" -> Token("Offset", None, range)
    [] text = "JOIN" -> Token("Join", None, range)
    [] text = "ON" -> Token("On", None, range)
    [] text = "GROUP" -> Token("Group", None, range)
    [] text = "HAVING" -> Token("Having", None, range)
    [] text = "AS" -> Token("As", None, range)
    [] text = "UNION" -> Token("Union", None, range)
    [] text = "WITH" -> Token("With", None, range)
    [] text = "CASE" -> Token("Case", None, range)
    [] text = "END" -> Token("End", None, range)
    [] text = "AGGREGATE" -> Token("Aggregate", None, range)
    [] text = "AND" -> Token("And", None, range)
    [] text = "OR" -> Token("Or", None, range)
    [] text = "COUNT" -> Token("Count", None, range)
    [] text = "SUM" -> Token("Sum", None, range)
    [] OTHER -> Token("Identifier", Some(text), range)

create_identifier(range, text) ==
  CASE text = "SELECT" -> Token("Select", None, range)
    [] text = "FROM" -> Token("From", None, range)
    [] text = "WHERE" -> Token("Where", None, range)
    [] text = "ORDER" -> Token("Order", None, range)
    [] text = "BY" -> Token("By", None, range)
    [] text = "ASC" -> Token("Asc", None, range)
    [] text = "DESC" -> Token("Desc", None, range)
    [] text = "LIMIT" -> Token("Limit", None, range)
    [] text = "OFFSET" -> Token("Offset", None, range)
    [] text = "JOIN" -> Token("Join", None, range)
    [] text = "ON" -> Token("On", None, range)
    [] text = "GROUP" -> Token("Group", None, range)
    [] text = "HAVING" -> Token("Having", None, range)
    [] text = "AS" -> Token("As", None, range)
    [] text = "UNION" -> Token("Union", None, range)
    [] text = "WITH" -> Token("With", None, range)
    [] text = "CASE" -> Token("Case", None, range)
    [] text = "END" -> Token("End", None, range)
    [] text = "AGGREGATE" -> Token("Aggregate", None, range)
    [] text = "AND" -> Token("And", None, range)
    [] text = "OR" -> Token("Or", None, range)
    [] text = "true" -> Token("Boolean", Some("true"), range)
    [] text = "false" -> Token("Boolean", Some("false"), range)
    [] text = "COUNT" -> Token("Count", None, range)
    [] text = "SUM" -> Token("Sum", None, range)
    [] OTHER -> Token("Identifier", Some(text), range)

is_comment(token) == token.kind = "Comment"

(***************************************************************************)
(* Characters.  A test handed to read_while is a record: the characters    *)
(* it names, and whether it accepts them (negate FALSE) or every other     *)
(* character (negate TRUE).                                                *)
(***************************************************************************)
LowerCase == {"a","b","c","d","e","f","g","h","i","j","k","l","m",
              "n","o","p","q","r","s","t","u","v","w","x","y","z"}
UpperCase == {"A","B","C","D","E","F","G","H","I","J","K","L","M",
              "N","O","P","Q","R","S","T","U","V","W","X","Y","Z"}
AsciiAlphabetic == LowerCase \cup UpperCase
AsciiDigit == {"0","1","2","3","4","5","6","7","8","9"}
Whitespace == {" ", "\t", "\n", "\r"}

\* utils/mod.rs: "1234567890.".contains(character)
match_number == [chars |-> AsciiDigit \cup {"."}, negate |-> FALSE]

Accepts(test, c) == (c \in test.chars) # test.negate

(***************************************************************************)
(* lexer/lexer.rs                                                          *)
(***************************************************************************)
LexerNew(raw) == [raw |-> raw, cursor |-> 0, cached |-> None, range_start |-> 0]

lexer_is_end(lx) == lx.cursor >= Len(lx.raw)

\* NUL past the end; the model writes it as the empty string.
peek_one(lx) ==
  IF lx.cursor < Len(lx.raw) THEN SubSeq(lx.raw, lx.cursor + 1, lx.cursor + 1) ELSE ""

peek_many(lx, count) ==
  SubSeq(lx.raw, lx.cursor + 1, IF lx.cursor + count <= Len(lx.raw) THEN lx.cursor + count ELSE Len(lx.raw))

starts_with(lx, s) ==
  /\ lx.cursor + Len(s) <= Len(lx.raw)
  /\ SubSeq(lx.raw, lx.cursor + 1, lx.cursor + Len(s)) = s

advance_one(lx) ==
  IF lx.cursor < Len(lx.raw) THEN [lx EXCEPT !.cursor = lx.cursor + 1] ELSE lx

RECURSIVE advance_many(_, _)
advance_many(lx, count) ==
  IF count = 0 THEN lx ELSE advance_many(advance_one(lx), count - 1)

RECURSIVE skip_whitespace(_)
skip_whitespace(lx) ==
  IF ~lexer_is_end(lx) /\ peek_one(lx) \in Whitespace
  THEN skip_whitespace(advance_one(lx))
  ELSE lx

\* A faulty update_current_range: range_start stays where the last token ended.
update_current_range_skipped(lx) == lx

update_current_range(lx) == [lx EXCEPT !.range_start = lx.cursor]

\* create_range returns the range and resets range_start: both are in the result.
create_range(lx) ==
  [lx |-> [lx EXCEPT !.range_start = lx.cursor], range |-> Range(lx.range_start, lx.cursor)]

RECURSIVE read_while_loop(_, _)
read_while_loop(lx, test) ==
  IF ~lexer_is_end(lx) /\ Accepts(test, peek_one(lx))
  THEN read_while_loop(advance_one(lx), test)
  ELSE lx

read_while(lx, test) ==
  LET after == read_while_loop(lx, test)
  IN  [lx |-> after, text |-> SubSeq(lx.raw, lx.cursor + 1, after.cursor)]

read_simple_token(lx, kind) ==
  LET cr == create_range(advance_one(lx))
  IN  Ok(cr.lx, create_simple_token(kind, cr.range))

read_check_ahead(lx, expected, single_kind, double_kind) ==
  IF starts_with(lx, expected)
  THEN LET cr == create_range(advance_many(lx, Len(expected)))
       IN  Ok(cr.lx, create_simple_token(double_kind, cr.range))
  ELSE read_simple_token(lx, single_kind)

read_bang(lx) ==
  IF starts_with(lx, "!=")
  THEN LET cr == create_range(advance_many(lx, 2))
       IN  Ok(cr.lx, Token("NotEqual", None, cr.range))
  ELSE LET cr == create_range(lx)
       IN  report_and_exit(cr.lx, "expected '!=' but got '" \o peek_many(lx, 2) \o "'", cr.range)

read_pipe(lx) ==
  IF starts_with(lx, "|>")
  THEN LET cr == create_range(advance_many(lx, 2))
       IN  Ok(cr.lx, Token("Pipe", None, cr.range))
  ELSE LET cr == create_range(lx)
       IN  report_and_exit(cr.lx, "expected '|>' but got '" \o peek_many(lx, 2) \o "'", cr.range)

\* A faulty read_line_comment: the Comment token does not keep the text.
read_line_comment_without_text(lx) ==
  IF starts_with(lx, "--")
  THEN LET rw == read_while(advance_many(lx, 2), [chars |-> {"\n"}, negate |-> TRUE])
           cr == create_range(rw.lx)
       IN  Ok(cr.lx, Token("Comment", None, cr.range))
  ELSE read_simple_token(lx, "Minus")

read_line_comment(lx) ==
  IF starts_with(lx, "--")
  THEN LET rw == read_while(advance_many(lx, 2), [chars |-> {"\n"}, negate |-> TRUE])
           cr == create_range(rw.lx)
       IN  Ok(cr.lx, Token("Comment", Some(rw.text), cr.range))
  ELSE read_simple_token(lx, "Minus")

read_identifier(lx) ==
  LET rw == read_while(lx, [chars |-> AsciiAlphabetic \cup AsciiDigit \cup {"_", "$"}, negate |-> FALSE])
      cr == create_range(rw.lx)
  IN  Ok(cr.lx, create_identifier(cr.range, rw.text))

read_number(lx) ==
  LET rw == read_while(lx, match_number)
      cr == create_range(rw.lx)
  IN  Ok(cr.lx, Token("Number", Some(rw.text), cr.range))

\* read_string_with_double_quote and read_string_with_single_quote, by the quote.
read_string(lx, quote) ==
  LET rw == read_while(advance_many(lx, 1), [chars |-> {quote, "\n"}, negate |-> TRUE])
  IN  IF starts_with(rw.lx, quote)
      THEN LET cr == create_range(advance_many(rw.lx, 1))
           IN  Ok(cr.lx, Token("String", Some(rw.text), cr.range))
      ELSE LET cr == create_range(rw.lx)
           IN  report_and_exit(cr.lx, "unterminated string literal", cr.range)

read_next_token(lx0) ==
  LET lx == update_current_range(skip_whitespace(lx0))
      c  == peek_one(lx)
  IN  IF lexer_is_end(lx)
      THEN LET cr == create_range(lx) IN Ok(cr.lx, create_simple_token("EOF", cr.range))
      ELSE CASE c = "[" -> read_simple_token(lx, "LeftBracket")
             [] c = "]" -> read_simple_token(lx, "RightBracket")
             [] c = "+" -> read_simple_token(lx, "Plus")
             [] c = "-" -> read_line_comment(lx)
             [] c = "*" -> read_simple_token(lx, "Asterisk")
             [] c = "/" -> read_simple_token(lx, "Slash")
             [] c = "%" -> read_simple_token(lx, "Percent")
             [] c = "=" -> read_simple_token(lx, "Equal")
             [] c = "(" -> read_simple_token(lx, "LeftParen")
             [] c = ")" -> read_simple_token(lx, "RightParen")
             [] c = "," -> read_simple_token(lx, "Comma")
             [] c = ";" -> read_simple_token(lx, "Semicolon")
             [] c = "." -> read_simple_token(lx, "Dot")
             [] c = "<" -> read_check_ahead(lx, "<=", "LessThan", "LessThanOrEqual")
             [] c = ">" -> read_check_ahead(lx, ">=", "GreaterThan", "GreaterThanOrEqual")
             [] c \in AsciiDigit -> read_number(lx)
             [] c = "\"" -> read_string(lx, "\"")
             [] c = "'" -> read_string(lx, "'")
             [] c = "!" -> read_bang(lx)
             [] c = "|" -> read_pipe(lx)
             [] c \in AsciiAlphabetic \cup {"_"} -> read_identifier(lx)
             [] OTHER -> LET cr == create_range(lx)
                         IN  report_and_exit(cr.lx, "unexpected character '" \o c \o "'", cr.range)

\* A faulty peek_token: the token is read and returned, and not kept.
peek_token_forgetful(lx) == read_next_token([lx EXCEPT !.cached = None])

peek_token(lx) ==
  IF IsSome(lx.cached)
  THEN Ok(lx, Unwrap(lx.cached))
  ELSE LET r == read_next_token(lx)
       IN  IF r.st = "ok" THEN Ok([r.lx EXCEPT !.cached = Some(r.v)], r.v) ELSE r

next_token(lx) ==
  IF IsSome(lx.cached)
  THEN Ok([lx EXCEPT !.cached = None], Unwrap(lx.cached))
  ELSE read_next_token(lx)

(***************************************************************************)
(* parser/ast.rs.  A node is a record whose field type names its variant.  *)
(***************************************************************************)
PipeStatement(left, right) == [type |-> "Pipe", left |-> left, right |-> right]

AggregateClause(function, argument, alias, range) ==
  [type |-> "Aggregate", function |-> function, argument |-> argument, alias |-> alias, range |-> range]

SelectStatement(distinct, expressions, range) ==
  [type |-> "Select", distinct |-> distinct, expressions |-> expressions, from |-> None, range |-> range]

SelectExpression(expression, alias, range) ==
  [expression |-> expression, alias |-> alias, range |-> range]

FromClause(table, range) == [type |-> "From", table |-> table, range |-> range]

JoinClause(table, on, range) == [type |-> "Join", table |-> table, on |-> on, range |-> range]

WhereClause(condition, range) == [type |-> "Where", condition |-> condition, range |-> range]

GroupByClause(cols, range) == [type |-> "GroupBy", columns |-> cols, range |-> range]

OrderClause(cols, range) == [type |-> "Order", columns |-> cols, range |-> range]

OrderColumn(column, direction) == [column |-> column, direction |-> direction]

LimitClause(count, offset, range) == [type |-> "Limit", count |-> count, offset |-> offset, range |-> range]

NumberLiteral(raw, range) == [type |-> "Literal", literal |-> "Number", raw |-> raw, range |-> range]

StringLiteral(value, range) == [type |-> "Literal", literal |-> "String", value |-> value, range |-> range]

ConditionExpression(left, operator, right) ==
  [type |-> "Condition", left |-> left, operator |-> operator, right |-> right]

create_column(table, column) ==
  [type |-> "Column", table |-> table, column |-> column,
   range |-> range_from((IF IsSome(table) THEN Unwrap(table) ELSE column).range, column.range)]

create_function_call(function_name, arguments, range) ==
  [type |-> "FunctionCall", function_name |-> function_name, arguments |-> arguments, range |-> range]

create_subquery(stmt, range) == [type |-> "Subquery", stmt |-> stmt, range |-> range]

from_get_range(from) == range_from(from.range, from.table.range)

with_from_clause(select, from) ==
  [select EXCEPT !.range = range_from(select.range, from_get_range(from)), !.from = Some(from)]

column_get_range(col) ==
  range_from(IF IsSome(col.table) THEN Unwrap(col.table).range ELSE col.range, col.column.range)

\* Whether Expression::get_range panics: FunctionCallExpression::get_range
\* unwraps the first and the last argument.
RECURSIVE expression_get_range_panics(_)
expression_get_range_panics(e) ==
  CASE e.type = "Condition" ->
         expression_get_range_panics(e.left) \/ expression_get_range_panics(e.right)
    [] e.type = "FunctionCall" ->
         \/ e.arguments = <<>>
         \/ expression_get_range_panics(e.arguments[1])
         \/ expression_get_range_panics(e.arguments[Len(e.arguments)])
    [] OTHER -> FALSE

RECURSIVE expression_get_range(_)
expression_get_range(e) ==
  CASE e.type = "Column" -> column_get_range(e)
    [] e.type = "Literal" -> e.range
    [] e.type = "Condition" -> range_from(expression_get_range(e.left), expression_get_range(e.right))
    [] e.type = "FunctionCall" ->
         range_from(expression_get_range(e.arguments[1]), expression_get_range(e.arguments[Len(e.arguments)]))
    [] e.type = "Subquery" -> e.range

select_expression_get_range(se) ==
  range_from(IF IsSome(se.alias) THEN Unwrap(se.alias).range ELSE se.range,
             expression_get_range(se.expression))

join_get_range(join) == range_from(expression_get_range(join.on), join.table.range)

order_column_get_range(oc) == expression_get_range(oc.column)

RECURSIVE statement_get_range(_)
statement_get_range(stmt) ==
  CASE stmt.type = "Pipe" -> range_from(statement_get_range(stmt.left), statement_get_range(stmt.right))
    [] stmt.type = "From" -> from_get_range(stmt)
    [] stmt.type = "Join" -> join_get_range(stmt)
    [] OTHER -> stmt.range

(***************************************************************************)
(* parser/parser.rs.  Every function takes the lexer and returns a result: *)
(* st = "ok" with the value v and the lexer after it, or the way the       *)
(* process ended, which every caller hands on unchanged.                   *)
(***************************************************************************)
\* TokenType to_string comes from the format module; the model prints the variant name.
kind_to_string(kind) == kind

report_error(lx, message, token) == report_and_exit(lx, message, token.range)

report_unexpected_token(lx, token) ==
  report_error(lx, "unexpected token '" \o kind_to_string(token.kind) \o "'", token)

current_range == RangeDefault

RECURSIVE call(_, _)

consume_token(lx) == call("next_token", lx)

consume_expect_token(lx, kind) ==
  LET r == consume_token(lx)
  IN  IF r.st # "ok" THEN r
      ELSE IF r.v.kind # kind
      THEN report_error(r.lx, "expected '" \o kind_to_string(kind) \o "' but found '"
                                 \o kind_to_string(r.v.kind) \o "'", r.v)
      ELSE r

match_token(lx, kind) ==
  LET r == call("peek_token", lx)
  IN  IF r.st # "ok" THEN r ELSE Ok(r.lx, r.v.kind = kind)

match_any_token(lx, kinds) ==
  LET r == call("peek_token", lx)
  IN  IF r.st # "ok" THEN r ELSE Ok(r.lx, r.v.kind \in kinds)

match_token_and_consume(lx, kind) ==
  LET m == match_token(lx, kind)
  IN  IF m.st # "ok" THEN m
      ELSE IF m.v
      THEN LET r == consume_token(m.lx)
           IN  IF r.st # "ok" THEN r ELSE Ok(r.lx, Some(r.v))
      ELSE Ok(m.lx, None)

is_end(lx) == match_token(lx, "EOF")

RECURSIVE skip_comments(_)
skip_comments(lx) ==
  LET r == call("peek_token", lx)
  IN  IF r.st # "ok" THEN r
      ELSE IF is_comment(r.v)
      THEN LET n == call("next_token", r.lx)
           IN  IF n.st # "ok" THEN n ELSE skip_comments(n.lx)
      ELSE Ok(r.lx, None)


parse_number_literal(lx) ==
  LET r == consume_expect_token(lx, "Number")
  IN  IF r.st # "ok" THEN r
      ELSE IF ~IsSome(r.v.lexeme)
      THEN report_error(r.lx, "expected number literal", r.v)
      ELSE Ok(r.lx, NumberLiteral(Unwrap(r.v.lexeme), r.v.range))

parse_string_literal(lx) ==
  LET r == consume_expect_token(lx, "String")
  IN  IF r.st # "ok" THEN r
      ELSE IF ~IsSome(r.v.lexeme)
      THEN report_error(r.lx, "expected string literal", r.v)
      ELSE Ok(r.lx, StringLiteral(Unwrap(r.v.lexeme), r.v.range))

parse_operator(lx) ==
  LET r == consume_token(lx)
  IN  IF r.st # "ok" THEN r
      ELSE IF r.v.kind \in {"Equal", "NotEqual", "LessThan", "GreaterThan", "LessThanOrEqual",
                            "GreaterThanOrEqual", "And", "Or"}
      THEN Ok(r.lx, r.v.kind)
      ELSE report_unexpected_token(r.lx, r.v)

parse_column_expression(lx) ==
  LET column_name == consume_expect_token(lx, "Identifier")
  IN  IF column_name.st # "ok" THEN column_name
      ELSE LET dot == match_token_and_consume(column_name.lx, "Dot")
           IN  IF dot.st # "ok" THEN dot
               ELSE IF IsSome(dot.v)
               THEN LET table_name == consume_expect_token(dot.lx, "Identifier")
                    IN  IF table_name.st # "ok" THEN table_name
                        ELSE Ok(table_name.lx, create_column(Some(table_name.v), column_name.v))
               ELSE Ok(dot.lx, create_column(None, column_name.v))

parse_order_column(lx) ==
  LET column == call("parse_column_expression", lx)
  IN  IF column.st # "ok" THEN column
      ELSE LET desc == match_token_and_consume(column.lx, "Desc")
           IN  IF desc.st # "ok" THEN desc
               ELSE Ok(desc.lx, OrderColumn(column.v, IF IsSome(desc.v) THEN "Desc" ELSE "Asc"))

\* while !match_token(RightParen) && !is_end() { parse_expression; push; match comma }
RECURSIVE parse_arguments_loop(_, _)
parse_arguments_loop(lx, arguments) ==
  LET paren == match_token(lx, "RightParen")
  IN  IF paren.st # "ok" THEN paren
      ELSE IF paren.v THEN Ok(paren.lx, arguments)
      ELSE LET end == is_end(paren.lx)
           IN  IF end.st # "ok" THEN end
               ELSE IF end.v THEN Ok(end.lx, arguments)
               ELSE LET argument == call("parse_expression", end.lx)
                    IN  IF argument.st # "ok" THEN argument
                        ELSE LET comma == match_token_and_consume(argument.lx, "Comma")
                             IN  IF comma.st # "ok" THEN comma
                                 ELSE parse_arguments_loop(comma.lx, Append(arguments, argument.v))

parse_column_or_function_call(lx) ==
  LET identifier == consume_expect_token(lx, "Identifier")
  IN  IF identifier.st # "ok" THEN identifier
      ELSE LET paren == match_token_and_consume(identifier.lx, "LeftParen")
           IN  IF paren.st # "ok" THEN paren
               ELSE IF IsSome(paren.v)
               THEN LET arguments == parse_arguments_loop(paren.lx, <<>>)
                    IN  IF arguments.st # "ok" THEN arguments
                        ELSE LET close == consume_expect_token(arguments.lx, "RightParen")
                             IN  IF close.st # "ok" THEN close
                                 ELSE Ok(close.lx, create_function_call(identifier.v, arguments.v, current_range))
               ELSE LET dot == match_token_and_consume(paren.lx, "Dot")
                    IN  IF dot.st # "ok" THEN dot
                        ELSE IF IsSome(dot.v)
                        THEN LET column == consume_expect_token(dot.lx, "Identifier")
                             IN  IF column.st # "ok" THEN column
                                 ELSE Ok(column.lx, create_column(Some(column.v), identifier.v))
                        ELSE Ok(dot.lx, create_column(None, identifier.v))

parse_subquery_expression(lx) ==
  LET left_paren == consume_expect_token(lx, "LeftParen")
  IN  IF left_paren.st # "ok" THEN left_paren
      ELSE LET statement == call("parse_statement", left_paren.lx)
           IN  IF statement.st # "ok" THEN statement
               ELSE LET right_paren == consume_expect_token(statement.lx, "RightParen")
                    IN  IF right_paren.st # "ok" THEN right_paren
                        ELSE Ok(right_paren.lx,
                                create_subquery(statement.v, range_from(left_paren.v.range, right_paren.v.range)))

parse_expression(lx) ==
  LET token == call("peek_token", lx)
  IN  IF token.st # "ok" THEN token
      ELSE CASE token.v.kind = "Identifier" -> call("parse_column_or_function_call", token.lx)
             [] token.v.kind = "Number" -> call("parse_number_literal", token.lx)
             [] token.v.kind = "String" -> call("parse_string_literal", token.lx)
             [] token.v.kind = "LeftParen" -> call("parse_subquery_expression", token.lx)
             [] OTHER -> report_unexpected_token(token.lx, token.v)

parse_condition_expression(lx) ==
  LET left == call("parse_expression", lx)
  IN  IF left.st # "ok" THEN left
      ELSE LET operator == call("parse_operator", left.lx)
           IN  IF operator.st # "ok" THEN operator
               ELSE LET right == call("parse_expression", operator.lx)
                    IN  IF right.st # "ok" THEN right
                        ELSE Ok(right.lx, ConditionExpression(left.v, operator.v, right.v))

AggregateTokens ==
  {"Count", "Sum", "Avg", "Min", "Max", "StdDev", "StdDevPop", "StdDevSamp", "VarPop", "VarSamp",
   "Variance", "First", "Last", "StringAgg", "Median", "Mode", "ArrayAgg", "JsonAgg", "BitAnd",
   "BitOr", "BoolAnd", "BoolOr"}

\* Each aggregate token kind maps to the AggregateFn of the same name.
parse_aggregate_function(lx) ==
  LET token == consume_token(lx)
  IN  IF token.st # "ok" THEN token
      ELSE IF token.v.kind \in AggregateTokens
      THEN Ok(token.lx, token.v.kind)
      ELSE report_error(token.lx, "unexpected token '" \o kind_to_string(token.v.kind) \o "'", token.v)

\* [AS identifier], in parse_aggregate_clause and parse_select_expression.
parse_alias(lx) ==
  LET as == match_token_and_consume(lx, "As")
  IN  IF as.st # "ok" THEN as
      ELSE IF IsSome(as.v)
      THEN LET alias == consume_expect_token(as.lx, "Identifier")
           IN  IF alias.st # "ok" THEN alias ELSE Ok(alias.lx, Some(alias.v))
      ELSE Ok(as.lx, None)

parse_aggregate_clause(lx) ==
  LET aggregate == consume_expect_token(lx, "Aggregate")
  IN  IF aggregate.st # "ok" THEN aggregate
      ELSE LET function == call("parse_aggregate_function", aggregate.lx)
      IN  IF function.st # "ok" THEN function
      ELSE LET left_paren == consume_expect_token(function.lx, "LeftParen")
      IN  IF left_paren.st # "ok" THEN left_paren
      ELSE LET argument == call("parse_expression", left_paren.lx)
      IN  IF argument.st # "ok" THEN argument
      ELSE LET right_paren == consume_expect_token(argument.lx, "RightParen")
      IN  IF right_paren.st # "ok" THEN right_paren
      ELSE LET alias == call("parse_alias", right_paren.lx)
      IN  IF alias.st # "ok" THEN alias
      ELSE IF expression_get_range_panics(argument.v) THEN Panic(alias.lx)
      ELSE LET argument_range == expression_get_range(argument.v)
               range == IF IsSome(alias.v)
                        THEN range_from(argument_range, Unwrap(alias.v).range)
                        ELSE argument_range
           IN  Ok(alias.lx, AggregateClause(function.v, argument.v, alias.v,
                                            range_from(aggregate.v.range, range)))

parse_select_expression(lx) ==
  LET expression == call("parse_expression", lx)
  IN  IF expression.st # "ok" THEN expression
      ELSE LET alias == call("parse_alias", expression.lx)
      IN  IF alias.st # "ok" THEN alias
      ELSE IF expression_get_range_panics(expression.v) THEN Panic(alias.lx)
      ELSE LET expression_range == expression_get_range(expression.v)
               range == IF IsSome(alias.v)
                        THEN range_from(expression_range, Unwrap(alias.v).range)
                        ELSE expression_range
           IN  Ok(alias.lx, SelectExpression(expression.v, alias.v, range))

parse_from_clause(lx) ==
  LET from == consume_expect_token(lx, "From")
  IN  IF from.st # "ok" THEN from
      ELSE LET table_name == consume_expect_token(from.lx, "Identifier")
           IN  IF table_name.st # "ok" THEN table_name
               ELSE Ok(table_name.lx, FromClause(table_name.v, range_from(from.v.range, table_name.v.range)))

\* while !match_token(From) && !is_end() { parse_select_expression; push; match comma }
RECURSIVE parse_select_loop(_, _)
parse_select_loop(lx, expressions) ==
  LET from == match_token(lx, "From")
  IN  IF from.st # "ok" THEN from
      ELSE IF from.v THEN Ok(from.lx, expressions)
      ELSE LET end == is_end(from.lx)
      IN  IF end.st # "ok" THEN end
      ELSE IF end.v THEN Ok(end.lx, expressions)
      ELSE LET expression == call("parse_select_expression", end.lx)
      IN  IF expression.st # "ok" THEN expression
      ELSE LET comma == match_token_and_consume(expression.lx, "Comma")
      IN  IF comma.st # "ok" THEN comma
      ELSE parse_select_loop(comma.lx, Append(expressions, expression.v))

parse_select_statement(lx) ==
  LET select == consume_expect_token(lx, "Select")
  IN  IF select.st # "ok" THEN select
      ELSE LET is_distinct == match_token_and_consume(select.lx, "Distinct")
      IN  IF is_distinct.st # "ok" THEN is_distinct
      ELSE LET expressions == parse_select_loop(is_distinct.lx, <<>>)
      IN  IF expressions.st # "ok" THEN expressions
      ELSE LET last_range == IF expressions.v # <<>>
                             THEN select_expression_get_range(expressions.v[Len(expressions.v)])
                             ELSE select.v.range
               range == range_from(select.v.range, last_range)
               select_statement == SelectStatement(IsSome(is_distinct.v), expressions.v, range)
               has_from == match_token(expressions.lx, "From")
           IN  IF has_from.st # "ok" THEN has_from
               ELSE IF has_from.v
               THEN LET from == call("parse_from_clause", has_from.lx)
                    IN  IF from.st # "ok" THEN from
                        ELSE Ok(from.lx, with_from_clause(select_statement, from.v))
               ELSE Ok(has_from.lx, select_statement)

parse_join_clause(lx) ==
  LET join == consume_expect_token(lx, "Join")
  IN  IF join.st # "ok" THEN join
      ELSE LET table_name == consume_expect_token(join.lx, "Identifier")
      IN  IF table_name.st # "ok" THEN table_name
      ELSE LET on == consume_expect_token(table_name.lx, "On")
      IN  IF on.st # "ok" THEN on
      ELSE LET left == call("parse_column_expression", on.lx)
      IN  IF left.st # "ok" THEN left
      ELSE LET operator == call("parse_operator", left.lx)
      IN  IF operator.st # "ok" THEN operator
      ELSE LET right == call("parse_column_expression", operator.lx)
      IN  IF right.st # "ok" THEN right
      ELSE LET left_range == range_from(join.v.range, expression_get_range(left.v))
               range == range_from(left_range, expression_get_range(right.v))
           IN  Ok(right.lx, JoinClause(table_name.v, ConditionExpression(left.v, operator.v, right.v), range))

parse_where_clause(lx) ==
  LET where == consume_expect_token(lx, "Where")
  IN  IF where.st # "ok" THEN where
      ELSE LET condition == call("parse_condition_expression", where.lx)
      IN  IF condition.st # "ok" THEN condition
      ELSE IF expression_get_range_panics(condition.v) THEN Panic(condition.lx)
      ELSE Ok(condition.lx,
              WhereClause(condition.v, range_from(where.v.range, expression_get_range(condition.v))))

\* while !match_any_token([Order, Limit]) && !is_end() { push column; if no comma { break } }
RECURSIVE parse_group_by_loop(_, _)
parse_group_by_loop(lx, cols) ==
  LET stop == match_any_token(lx, {"Order", "Limit"})
  IN  IF stop.st # "ok" THEN stop
      ELSE IF stop.v THEN Ok(stop.lx, cols)
      ELSE LET end == is_end(stop.lx)
      IN  IF end.st # "ok" THEN end
      ELSE IF end.v THEN Ok(end.lx, cols)
      ELSE LET column == call("parse_column_expression", end.lx)
      IN  IF column.st # "ok" THEN column
      ELSE LET comma == match_token_and_consume(column.lx, "Comma")
      IN  IF comma.st # "ok" THEN comma
      ELSE IF IsSome(comma.v)
      THEN parse_group_by_loop(comma.lx, Append(cols, column.v))
      ELSE Ok(comma.lx, Append(cols, column.v))

parse_group_by_clause(lx) ==
  LET group == consume_expect_token(lx, "Group")
  IN  IF group.st # "ok" THEN group
      ELSE LET by == consume_expect_token(group.lx, "By")
      IN  IF by.st # "ok" THEN by
      ELSE LET cols == parse_group_by_loop(by.lx, <<>>)
      IN  IF cols.st # "ok" THEN cols
      ELSE IF cols.v # <<>>
      THEN Ok(cols.lx, GroupByClause(cols.v,
                range_from(group.v.range, expression_get_range(cols.v[Len(cols.v)]))))
      ELSE Ok(cols.lx, GroupByClause(cols.v, group.v.range))

\* while !match_token(Limit) && !is_end() { push order column; if no comma { break } }
RECURSIVE parse_order_loop(_, _)
parse_order_loop(lx, cols) ==
  LET stop == match_token(lx, "Limit")
  IN  IF stop.st # "ok" THEN stop
      ELSE IF stop.v THEN Ok(stop.lx, cols)
      ELSE LET end == is_end(stop.lx)
      IN  IF end.st # "ok" THEN end
      ELSE IF end.v THEN Ok(end.lx, cols)
      ELSE LET column == call("parse_order_column", end.lx)
      IN  IF column.st # "ok" THEN column
      ELSE LET comma == match_token_and_consume(column.lx, "Comma")
      IN  IF comma.st # "ok" THEN comma
      ELSE IF IsSome(comma.v)
      THEN parse_order_loop(comma.lx, Append(cols, column.v))
      ELSE Ok(comma.lx, Append(cols, column.v))

parse_order_clause(lx) ==
  LET order == consume_expect_token(lx, "Order")
  IN  IF order.st # "ok" THEN order
      ELSE LET by == consume_expect_token(order.lx, "By")
      IN  IF by.st # "ok" THEN by
      ELSE LET cols == parse_order_loop(by.lx, <<>>)
      IN  IF cols.st # "ok" THEN cols
      ELSE IF cols.v # <<>>
      THEN Ok(cols.lx, OrderClause(cols.v,
                range_from(order.v.range, order_column_get_range(cols.v[Len(cols.v)]))))
      ELSE Ok(cols.lx, OrderClause(cols.v, current_range))

parse_limit_clause(lx) ==
  LET limit == consume_expect_token(lx, "Limit")
  IN  IF limit.st # "ok" THEN limit
      ELSE LET count == call("parse_number_literal", limit.lx)
      IN  IF count.st # "ok" THEN count
      ELSE LET comma == match_token_and_consume(count.lx, "Comma")
      IN  IF comma.st # "ok" THEN comma
      ELSE IF IsSome(comma.v)
      THEN LET offset == call("parse_number_literal", comma.lx)
           IN  IF offset.st # "ok" THEN offset
               ELSE Ok(offset.lx, LimitClause(count.v, Some(offset.v),
                         range_from(range_from(limit.v.range, count.v.range), offset.v.range)))
      ELSE Ok(comma.lx, LimitClause(count.v, None, range_from(limit.v.range, count.v.range)))

parse_primary_statement(lx) ==
  LET token == call("peek_token", lx)
  IN  IF token.st # "ok" THEN token
      ELSE CASE token.v.kind = "Select" -> call("parse_select_statement", token.lx)
             [] token.v.kind = "From" -> call("parse_from_clause", token.lx)
             [] token.v.kind = "Join" -> call("parse_join_clause", token.lx)
             [] token.v.kind = "Where" -> call("parse_where_clause", token.lx)
             [] token.v.kind = "Group" -> call("parse_group_by_clause", token.lx)
             [] token.v.kind = "Order" -> call("parse_order_clause", token.lx)
             [] token.v.kind = "Limit" -> call("parse_limit_clause", token.lx)
             [] token.v.kind = "Aggregate" -> call("parse_aggregate_clause", token.lx)
             [] OTHER -> report_unexpected_token(token.lx, token.v)

\* A faulty pipe loop: the stage read after the pipe becomes the left operand.
RECURSIVE parse_pipe_loop_right_deep(_, _)
parse_pipe_loop_right_deep(lx, statement) ==
  LET pipe == match_token_and_consume(lx, "Pipe")
  IN  IF pipe.st # "ok" THEN pipe
      ELSE IF IsSome(pipe.v)
      THEN LET next_statement == call("parse_primary_statement", pipe.lx)
           IN  IF next_statement.st # "ok" THEN next_statement
               ELSE parse_pipe_loop_right_deep(next_statement.lx, PipeStatement(next_statement.v, statement))
      ELSE Ok(pipe.lx, statement)

\* while match_token_and_consume(Pipe).is_some() { statement = Pipe(statement, primary) }
RECURSIVE parse_pipe_loop(_, _)
parse_pipe_loop(lx, statement) ==
  LET pipe == match_token_and_consume(lx, "Pipe")
  IN  IF pipe.st # "ok" THEN pipe
      ELSE IF IsSome(pipe.v)
      THEN LET next_statement == call("parse_primary_statement", pipe.lx)
           IN  IF next_statement.st # "ok" THEN next_statement
               ELSE parse_pipe_loop(next_statement.lx, PipeStatement(statement, next_statement.v))
      ELSE Ok(pipe.lx, statement)

parse_statement(lx) ==
  LET skipped == skip_comments(lx)
  IN  IF skipped.st # "ok" THEN skipped
      ELSE LET statement == call("parse_primary_statement", skipped.lx)
           IN  IF statement.st # "ok" THEN statement
               ELSE parse_pipe_loop(statement.lx, statement.v)

\* while !is_end() { push parse_statement(); match_token_and_consume(Semicolon) }
RECURSIVE parse_program_loop(_, _)
parse_program_loop(lx, statements) ==
  LET end == is_end(lx)
  IN  IF end.st # "ok" THEN end
      ELSE IF end.v THEN Ok(end.lx, statements)
      ELSE LET statement == call("parse_statement", end.lx)
      IN  IF statement.st # "ok" THEN statement
      ELSE LET semicolon == match_token_and_consume(statement.lx, "Semicolon")
      IN  IF semicolon.st # "ok" THEN semicolon
      ELSE parse_program_loop(semicolon.lx, Append(statements, statement.v))

\* Program is its statements.
parse_program(lx) == parse_program_loop(lx, <<>>)

\* The methods of Parser that take no argument, by name, and the two methods
\* of Lexer they use: call(method, lx) is self.method().
call(method, lx) ==
  CASE method = "peek_token" -> peek_token(lx)
    [] method = "next_token" -> next_token(lx)
    [] method = "parse_number_literal" -> parse_number_literal(lx)
    [] method = "parse_string_literal" -> parse_string_literal(lx)
    [] method = "parse_operator" -> parse_operator(lx)
    [] method = "parse_column_expression" -> parse_column_expression(lx)
    [] method = "parse_order_column" -> parse_order_column(lx)
    [] method = "parse_column_or_function_call" -> parse_column_or_function_call(lx)
    [] method = "parse_subquery_expression" -> parse_subquery_expression(lx)
    [] method = "parse_expression" -> parse_expression(lx)
    [] method = "parse_condition_expression" -> parse_condition_expression(lx)
    [] method = "parse_aggregate_function" -> parse_aggregate_function(lx)
    [] method = "parse_alias" -> parse_alias(lx)
    [] method = "parse_aggregate_clause" -> parse_aggregate_clause(lx)
    [] method = "parse_select_expression" -> parse_select_expression(lx)
    [] method = "parse_from_clause" -> parse_from_clause(lx)
    [] method = "parse_select_statement" -> parse_select_statement(lx)
    [] method = "parse_join_clause" -> parse_join_clause(lx)
    [] method = "parse_where_clause" -> parse_where_clause(lx)
    [] method = "parse_group_by_clause" -> parse_group_by_clause(lx)
    [] method = "parse_order_clause" -> parse_order_clause(lx)
    [] method = "parse_limit_clause" -> parse_limit_clause(lx)
    [] method = "parse_primary_statement" -> parse_primary_statement(lx)
    [] method = "parse_statement" -> parse_statement(lx)
    [] method = "parse_program" -> parse_program(lx)

parse(lx) == call("parse_program", lx)

(***************************************************************************)
(* emiter/mod.rs                                                           *)
(***************************************************************************)
\* Vec<String>::join(sep)
RECURSIVE Join(_, _)
Join(strings, sep) ==
  IF strings = <<>> THEN ""
  ELSE IF Len(strings) = 1 THEN strings[1]
  ELSE strings[1] \o sep \o Join(Tail(strings), sep)

\* str::starts_with
StartsWith(s, prefix) == Len(prefix) <= Len(s) /\ SubSeq(s, 1, Len(prefix)) = prefix

\* str::contains
Contains(s, pattern) ==
  \E i \in 1..(Len(s) - Len(pattern) + 1) : SubSeq(s, i, i + Len(pattern) - 1) = pattern

\* str::trim
RECURSIVE Trim(_)
Trim(s) ==
  IF s = "" THEN s
  ELSE IF SubSeq(s, 1, 1) \in Whitespace THEN Trim(SubSeq(s, 2, Len(s)))
  ELSE IF SubSeq(s, Len(s), Len(s)) \in Whitespace THEN Trim(SubSeq(s, 1, Len(s) - 1))
  ELSE s

aggregate_fn_emit(function) ==
  CASE function = "Count" -> "COUNT"
    [] function = "Sum" -> "SUM"
    [] function = "Avg" -> "AVG"
    [] function = "Min" -> "MIN"
    [] function = "Max" -> "MAX"
    [] function = "StdDev" -> "STDDEV"
    [] function = "StdDevPop" -> "STDDEV_POP"
    [] function = "StdDevSamp" -> "STDDEV_SAMP"
    [] function = "VarPop" -> "VAR_POP"
    [] function = "VarSamp" -> "VAR_SAMP"
    [] function = "Variance" -> "VARIANCE"
    [] function = "First" -> "FIRST"
    [] function = "Last" -> "LAST"
    [] function = "GroupConcat" -> "GROUP_CONCAT"
    [] function = "StringAgg" -> "STRING_AGG"
    [] function = "Median" -> "MEDIAN"
    [] function = "Mode" -> "MODE"
    [] function = "ArrayAgg" -> "ARRAY_AGG"
    [] function = "JsonAgg" -> "JSON_AGG"
    [] function = "JsonObjectAgg" -> "JSON_OBJECT_AGG"
    [] function = "BitAnd" -> "BIT_AND"
    [] function = "BitOr" -> "BIT_OR"
    [] function = "BoolAnd" -> "BOOL_AND"
    [] function = "BoolOr" -> "BOOL_OR"

operator_emit(operator) ==
  CASE operator = "Equal" -> "="
    [] operator = "NotEqual" -> "!="
    [] operator = "LessThan" -> "<"
    [] operator = "GreaterThan" -> ">"
    [] operator = "LessThanOrEqual" -> "<="
    [] operator = "GreaterThanOrEqual" -> ">="
    [] operator = "And" -> "AND"
    [] operator = "Or" -> "OR"

order_direction_emit(direction) == IF direction = "Asc" THEN "ASC" ELSE "DESC"

\* A faulty ColumnExpression::emit: the table qualifier is printed first.
column_emit_table_first(col) ==
  IF ~IsSome(col.table)
  THEN Unwrap(col.column.lexeme)
  ELSE Unwrap(Unwrap(col.table).lexeme) \o "." \o Unwrap(col.column.lexeme)

column_emit(col) ==
  IF ~IsSome(col.table)
  THEN Unwrap(col.column.lexeme)
  ELSE Unwrap(col.column.lexeme) \o "." \o Unwrap(Unwrap(col.table).lexeme)

literal_emit(lit) ==
  CASE lit.literal = "String" -> "'" \o lit.value \o "'"
    [] lit.literal = "Number" -> lit.raw
    [] lit.literal = "Boolean" -> lit.value

from_emit(from) == "FROM " \o Unwrap(from.table.lexeme)

alias_emit(alias) == IF IsSome(alias) THEN " AS " \o Unwrap(Unwrap(alias).lexeme) ELSE ""

RECURSIVE to_sql(_)
RECURSIVE expression_emit(_)

\* iter().map(|e| e.emit()).collect()
RECURSIVE expressions_emit(_)
expressions_emit(expressions) ==
  IF expressions = <<>> THEN <<>>
  ELSE <<expression_emit(expressions[1])>> \o expressions_emit(Tail(expressions))

condition_emit(c) ==
  expression_emit(c.left) \o " " \o operator_emit(c.operator) \o " " \o expression_emit(c.right)

function_call_emit(f) ==
  Unwrap(f.function_name.lexeme) \o "(" \o Join(expressions_emit(f.arguments), ", ") \o ")"

subquery_emit(sub) == "(" \o to_sql(sub.stmt) \o ")"

expression_emit(e) ==
  CASE e.type = "Column" -> column_emit(e)
    [] e.type = "Literal" -> literal_emit(e)
    [] e.type = "Condition" -> condition_emit(e)
    [] e.type = "FunctionCall" -> function_call_emit(e)
    [] e.type = "Subquery" -> subquery_emit(e)

select_expression_emit(se) == expression_emit(se.expression) \o alias_emit(se.alias)

RECURSIVE select_expressions_emit(_)
select_expressions_emit(expressions) ==
  IF expressions = <<>> THEN <<>>
  ELSE <<select_expression_emit(expressions[1])>> \o select_expressions_emit(Tail(expressions))

select_emit(select) ==
  "SELECT " \o (IF select.distinct THEN "DISTINCT " ELSE "")
            \o Join(select_expressions_emit(select.expressions), ", ")
            \o (IF IsSome(select.from) THEN " " \o from_emit(Unwrap(select.from)) ELSE "")

join_emit(join) == "JOIN " \o Unwrap(join.table.lexeme) \o " ON " \o condition_emit(join.on)

where_emit(where) == "WHERE " \o expression_emit(where.condition)

group_by_emit(group_by) == "GROUP BY " \o Join(expressions_emit(group_by.columns), ", ")

order_column_emit(oc) == expression_emit(oc.column) \o " " \o order_direction_emit(oc.direction)

RECURSIVE order_columns_emit(_)
order_columns_emit(cols) ==
  IF cols = <<>> THEN <<>>
  ELSE <<order_column_emit(cols[1])>> \o order_columns_emit(Tail(cols))

order_emit(order) == "ORDER BY " \o Join(order_columns_emit(order.columns), ", ")

limit_emit(limit) ==
  "LIMIT " \o literal_emit(limit.count)
           \o (IF IsSome(limit.offset) THEN ", " \o literal_emit(Unwrap(limit.offset)) ELSE "")

aggregate_emit(a) ==
  aggregate_fn_emit(a.function) \o "(" \o expression_emit(a.argument) \o ")" \o alias_emit(a.alias)

\* A faulty emit_with_base: FROM is inserted whatever the base starts with.
emit_with_base_always_from(a, base) ==
  LET func == aggregate_fn_emit(a.function) \o "(" \o expression_emit(a.argument) \o ")"
                \o alias_emit(a.alias)
  IN  "SELECT " \o func \o " FROM " \o base

emit_with_base(a, base) ==
  LET func == aggregate_fn_emit(a.function) \o "(" \o expression_emit(a.argument) \o ")"
                \o alias_emit(a.alias)
  IN  IF StartsWith(Trim(base), "FROM")
      THEN "SELECT " \o func \o " " \o base
      ELSE "SELECT " \o func \o " FROM " \o base

\* A faulty PipeStatement::to_sql: the right stage is glued to the left one
\* without the space between them.
pipe_to_sql_glued(pipe) ==
  LET left == to_sql(pipe.left)
  IN  CASE pipe.right.type = "Aggregate" -> emit_with_base(pipe.right, left)
        [] pipe.right.type = "Join" -> left \o join_emit(pipe.right)
        [] pipe.right.type = "Where" -> left \o where_emit(pipe.right)
        [] pipe.right.type = "GroupBy" -> left \o group_by_emit(pipe.right)
        [] pipe.right.type = "Order" -> left \o order_emit(pipe.right)
        [] pipe.right.type = "Limit" -> left \o limit_emit(pipe.right)
        [] OTHER -> left \o to_sql(pipe.right)

pipe_to_sql(pipe) ==
  LET left == to_sql(pipe.left)
  IN  CASE pipe.right.type = "Aggregate" -> emit_with_base(pipe.right, left)
        [] pipe.right.type = "Join" -> left \o " " \o join_emit(pipe.right)
        [] pipe.right.type = "Where" -> left \o " " \o where_emit(pipe.right)
        [] pipe.right.type = "GroupBy" -> left \o " " \o group_by_emit(pipe.right)
        [] pipe.right.type = "Order" -> left \o " " \o order_emit(pipe.right)
        [] pipe.right.type = "Limit" -> left \o " " \o limit_emit(pipe.right)
        [] OTHER -> left \o " " \o to_sql(pipe.right)

\* Statement::to_sql
to_sql(stmt) ==
  CASE stmt.type = "Select" -> select_emit(stmt)
    [] stmt.type = "From" -> from_emit(stmt)
    [] stmt.type = "Join" -> join_emit(stmt)
    [] stmt.type = "Where" -> where_emit(stmt)
    [] stmt.type = "GroupBy" -> group_by_emit(stmt)
    [] stmt.type = "Order" -> order_emit(stmt)
    [] stmt.type = "Limit" -> limit_emit(stmt)
    [] stmt.type = "Pipe" -> pipe_to_sql(stmt)
    [] stmt.type = "Aggregate" -> aggregate_emit(stmt)

RECURSIVE statements_to_sql(_)
statements_to_sql(statements) ==
  IF statements = <<>> THEN <<>>
  ELSE <<to_sql(statements[1])>> \o statements_to_sql(Tail(statements))

\* Program::to_sql
program_to_sql(statements) == Join(statements_to_sql(statements), " ")

(***************************************************************************)
(* diagnostics/maneger.rs                                                  *)
(***************************************************************************)
Diagnostic(message, hint, range, severity) ==
  [message |-> message, hint |-> hint, range |-> range, severity |-> severity]

\* A faulty conversion: a duplicate column is an Error.
diagnostic_from_strict(error, range) ==
  CASE error = "MissingIndexOnJoin" ->
         Diagnostic("missing index on join", Some("consider adding an index to improve performance"),
                    range, "Warning")
    [] error = "RedundantSubQuery" ->
         Diagnostic("redundant subquery", Some("optimize by refactoring the subquery"), range, "Warning")
    [] error = "MissingSelectClause" ->
         Diagnostic("missing 'SELECT' clause", Some("ensure the query starts with 'SELECT'"), range, "Error")
    [] error = "DuplicateColumn" ->
         Diagnostic("duplicate column", Some("remove or rename the duplicate column"), range, "Error")
    [] error = "UnsupportedOperator" ->
         Diagnostic("unsupported operator", Some("use supported operators like '=', '<', '>'"),
                    range, "Error")
    [] error = "MissingGroupBy" ->
         Diagnostic("missing 'GROUP BY' clause", Some("add 'GROUP BY' to group results correctly"),
                    range, "Error")

\* impl From<TypeError> for Diagnostic
diagnostic_from(error, range) ==
  CASE error = "MissingIndexOnJoin" ->
         Diagnostic("missing index on join", Some("consider adding an index to improve performance"),
                    range, "Warning")
    [] error = "PipeWithoutFrom" ->
         Diagnostic("pipe missing 'FROM' clause", Some("ensure 'FROM' clause is present after aggregate"),
                    range, "Error")
    [] error = "RedundantSubQuery" ->
         Diagnostic("redundant subquery", Some("optimize by refactoring the subquery"), range, "Warning")
    [] error = "UnexpectedToken" ->
         Diagnostic("unexpected token", Some("check the SQL syntax"), range, "Error")
    [] error = "MissingSelectClause" ->
         Diagnostic("missing 'SELECT' clause", Some("ensure the query starts with 'SELECT'"), range, "Error")
    [] error = "DuplicateColumn" ->
         Diagnostic("duplicate column", Some("remove or rename the duplicate column"), range, "Warning")
    [] error = "UnsupportedOperator" ->
         Diagnostic("unsupported operator", Some("use supported operators like '=', '<', '>'"),
                    range, "Error")
    [] error = "MissingGroupBy" ->
         Diagnostic("missing 'GROUP BY' clause", Some("add 'GROUP BY' to group results correctly"),
                    range, "Error")
    [] error = "AmbiguousColumn" ->
         Diagnostic("ambiguous column reference", Some("qualify column names with table names"),
                    range, "Error")
    [] error = "FunctionArgumentMismatch" ->
         Diagnostic("function argument mismatch", Some("check the number and types of arguments"),
                    range, "Error")

\* A faulty add: a diagnostic equal to one already held is dropped.
add_deduplicated(diags, diagnostic) ==
  IF \E i \in DOMAIN diags : diags[i] = diagnostic THEN diags ELSE Append(diags, diagnostic)

\* DiagnosticsManager::add
add(diags, diagnostic) == Append(diags, diagnostic)

\* DiagnosticsManager::contains_error
contains_error(diags) == \E i \in DOMAIN diags : diags[i].severity = "Error"

(***************************************************************************)
(* diagnostics/report.rs.  What report_error prints is one entry of        *)
(* stdout: the banner, the message, the offsets handed to the excerpt      *)
(* highlighter of the code_highlighter crate, and the hint.                *)
(***************************************************************************)
report_error_output(message, hint, range, warning) ==
  [banner |-> IF warning THEN "WARNING >>>" ELSE "ERROR >>>", message |-> message,
   start |-> range.start, end |-> range.end, hint |-> hint]

\* DiagnosticsManager::report: report_error for every diagnostic, in order.
RECURSIVE report_outputs(_)
report_outputs(diags) ==
  IF diags = <<>> THEN <<>>
  ELSE <<report_error_output(diags[1].message, diags[1].hint, diags[1].range,
                             diags[1].severity = "Warning")>> \o report_outputs(Tail(diags))

\* println!("{}", native)
sql_output(text) == [banner |-> "SQL", message |-> text, start |-> 0, end |-> 0, hint |-> None]

(***************************************************************************)
(* checker/mod.rs.  The checker is the record ck of its three fields.      *)
(***************************************************************************)
CheckerNew == [diagnostics |-> <<>>, tables |-> <<>>, columns |-> <<>>]

\* Vec<String>::contains
VecContains(vec, x) == \E i \in DOMAIN vec : vec[i] = x

check_from(ck, from) ==
  LET table_name == Unwrap(from.table.lexeme)
  IN  IF VecContains(ck.tables, table_name)
      THEN [ck EXCEPT !.diagnostics = add(@, diagnostic_from("DuplicateColumn", from_get_range(from)))]
      ELSE [ck EXCEPT !.tables = Append(@, table_name)]

check_select_expression(ck, expr) ==
  IF expr.expression.type = "Column"
  THEN LET column_name == Unwrap(expr.expression.column.lexeme)
       IN  IF ~VecContains(ck.columns, column_name)
           THEN [ck EXCEPT !.columns = Append(@, column_name)]
           ELSE [ck EXCEPT !.diagnostics =
                   add(@, diagnostic_from("DuplicateColumn", column_get_range(expr.expression)))]
  ELSE ck

\* for expr in &select.expressions { ... }
RECURSIVE check_select_loop(_, _)
check_select_loop(ck, expressions) ==
  IF expressions = <<>> THEN ck
  ELSE check_select_loop(check_select_expression(ck, expressions[1]), Tail(expressions))

\* A faulty check_select: the seen columns are forgotten at every SELECT.
check_select_per_statement(ck, select) ==
  LET ck1 == IF select.expressions = <<>>
             THEN [ck EXCEPT !.diagnostics = add(@, diagnostic_from("MissingSelectClause", select.range))]
             ELSE ck
  IN  check_select_loop([ck1 EXCEPT !.columns = <<>>], select.expressions)

check_select(ck, select) ==
  LET ck1 == IF select.expressions = <<>>
             THEN [ck EXCEPT !.diagnostics = add(@, diagnostic_from("MissingSelectClause", select.range))]
             ELSE ck
  IN  check_select_loop(ck1, select.expressions)

\* A faulty check_join: the joined table is recorded like a table of a FROM.
check_join_records_table(ck, join) ==
  LET table_name == Unwrap(join.table.lexeme)
  IN  IF ~VecContains(ck.tables, table_name)
      THEN [ck EXCEPT !.diagnostics = add(@, diagnostic_from("MissingIndexOnJoin", join_get_range(join))),
                      !.tables = Append(@, table_name)]
      ELSE ck

check_join(ck, join) ==
  LET table_name == Unwrap(join.table.lexeme)
  IN  IF ~VecContains(ck.tables, table_name)
      THEN [ck EXCEPT !.diagnostics = add(@, diagnostic_from("MissingIndexOnJoin", join_get_range(join)))]
      ELSE ck

\* A faulty check_where: it looks for OR without the spaces around it.
check_where_any_or(ck, where_clause) ==
  IF Contains(expression_emit(where_clause.condition), "OR")
  THEN [ck EXCEPT !.diagnostics = add(@, diagnostic_from("UnsupportedOperator", where_clause.range))]
  ELSE ck

check_where(ck, where_clause) ==
  IF Contains(expression_emit(where_clause.condition), " OR ")
  THEN [ck EXCEPT !.diagnostics = add(@, diagnostic_from("UnsupportedOperator", where_clause.range))]
  ELSE ck

check_group_by(ck, group_by) ==
  IF group_by.columns = <<>>
  THEN [ck EXCEPT !.diagnostics = add(@, diagnostic_from("MissingGroupBy", group_by.range))]
  ELSE ck

check_aggregate(ck, agg) ==
  IF agg.argument.type = "Subquery"
  THEN [ck EXCEPT !.diagnostics = add(@, diagnostic_from("RedundantSubQuery", agg.range))]
  ELSE ck

RECURSIVE check_statement(_, _)

\* A faulty check_pipe: the right operand is skipped once an Error is held.
check_pipe_short_circuit(ck, pipe) ==
  IF contains_error(check_statement(ck, pipe.left).diagnostics)
  THEN check_statement(ck, pipe.left)
  ELSE check_statement(check_statement(ck, pipe.left), pipe.right)

check_pipe(ck, pipe) == check_statement(check_statement(ck, pipe.left), pipe.right)

check_statement(ck, stmt) ==
  CASE stmt.type = "Select" -> check_select(ck, stmt)
    [] stmt.type = "From" -> check_from(ck, stmt)
    [] stmt.type = "Join" -> check_join(ck, stmt)
    [] stmt.type = "Where" -> check_where(ck, stmt)
    [] stmt.type = "GroupBy" -> check_group_by(ck, stmt)
    [] stmt.type = "Aggregate" -> check_aggregate(ck, stmt)
    [] stmt.type = "Pipe" -> check_pipe(ck, stmt)
    [] OTHER -> ck

(***************************************************************************)
(* The files the model compiles.  A file is a sequence of stage texts,     *)
(* each joined to the next by a pipe or by a semicolon.                    *)
(***************************************************************************)
\* The longest file of stages drawn from Stages.
MaxStatements == 2

\* The longest pipeline of stages drawn from PipelineStages.
MaxStages == 3

Stages ==
  { "SELECT name FROM users",
    "SELECT id, id",
    "SELECT FROM users",
    "SELECT f() FROM users",
    "FROM users",
    "JOIN users ON a = b",
    "WHERE age > 18",
    "WHERE status = \"OR\"",
    "WHERE note = 'a OR b'",
    "WHERE a OR b",
    "GROUP BY dept",
    "GROUP BY",
    "ORDER BY name DESC",
    "LIMIT 10, 5",
    "AGGREGATE COUNT(id)",
    "AGGREGATE SUM((FROM users)) AS total",
    "WHERE age > @",
    "LIMIT many" }

PipelineStages ==
  { "SELECT name FROM users",
    "FROM users",
    "WHERE age > 18",
    "JOIN users ON a = b",
    "JOIN orders ON a = b",
    "AGGREGATE COUNT(id)" }

Separators == {" |> ", "; "}

RECURSIVE Compose(_, _)
Compose(stages, seps) ==
  IF Len(stages) = 1 THEN stages[1]
  ELSE stages[1] \o seps[1] \o Compose(Tail(stages), Tail(seps))

\* A file of stages drawn from Stages has the same separator throughout.
Written ==
  UNION { { [stages |-> st, seps |-> [i \in 1..(n-1) |-> sep]] : st \in [1..n -> Stages], sep \in Separators }
          : n \in 1..MaxStatements }
  \cup
  UNION { { [stages |-> st, seps |-> sp] : st \in [1..n -> PipelineStages], sp \in [1..(n-1) -> {" |> "}] }
          : n \in 1..MaxStages }

(***************************************************************************)
(* main.rs: run_compile                                                    *)
(***************************************************************************)
Init ==
  /\ written \in Written
  /\ source = Compose(written.stages, written.seps)
  /\ pc = "parse"
  /\ lexer = LexerNew(source)
  /\ program = None
  /\ tables = <<>>
  /\ columns = <<>>
  /\ diagnostics = <<>>
  /\ next_stmt = 1
  /\ stdout = <<>>
  /\ exit_code = None
  /\ added = <<>>
  /\ calls = <<>>

\* std::process::exit(code)
Exit(code) ==
  /\ exit_code' = Some(code)
  /\ pc' = "exited"

\* A faulty report_and_exit: the diagnostic is printed and the process ends with 0.
ReportAndExitZero(message, range) ==
  /\ stdout' = Append(stdout, report_error_output(message, None, range, FALSE))
  /\ Exit(0)

\* report_and_exit, as it acts on the process: report_error, then exit(1).
ReportAndExit(message, range) ==
  /\ stdout' = Append(stdout, report_error_output(message, None, range, FALSE))
  /\ Exit(1)

\* let program = parser.parse();
ParseOk ==
  /\ pc = "parse"
  /\ \E r \in {parse(lexer)} :
         /\ r.st = "ok"
         /\ lexer' = r.lx
         /\ program' = Some(r.v)
  /\ pc' = "check"
  /\ UNCHANGED <<calls, added, written, source, tables, columns, diagnostics, next_stmt, stdout, exit_code>>

\* parse() reached report_and_exit: a lexical or a parse error.
ParseFatal ==
  /\ pc = "parse"
  /\ \E r \in {parse(lexer)} :
         /\ r.st = "fatal"
         /\ lexer' = r.lx
         /\ ReportAndExit(r.message, r.range)
  /\ UNCHANGED <<calls, added, written, source, program, tables, columns, diagnostics, next_stmt>>

\* parse() panicked: the message goes to stderr and the process ends with 101.
ParsePanic ==
  /\ pc = "parse"
  /\ \E r \in {parse(lexer)} :
         /\ r.st = "panic"
         /\ lexer' = r.lx
  /\ Exit(101)
  /\ UNCHANGED <<calls, added, written, source, program, tables, columns, diagnostics, next_stmt, stdout>>

\* Checker::check: one iteration of for stmt in &program.statements.
CheckStatement ==
  /\ pc = "check"
  /\ next_stmt <= Len(Unwrap(program))
  /\ LET ck == check_statement([diagnostics |-> diagnostics, tables |-> tables, columns |-> columns],
                               Unwrap(program)[next_stmt])
     IN  /\ diagnostics' = ck.diagnostics
         /\ tables' = ck.tables
         /\ columns' = ck.columns
  /\ next_stmt' = next_stmt + 1
  /\ UNCHANGED <<calls, added, written, source, pc, lexer, program, stdout, exit_code>>

\* checker.report(&source), once check has visited every statement.
Report ==
  /\ pc = "check"
  /\ next_stmt > Len(Unwrap(program))
  /\ stdout' = stdout \o report_outputs(diagnostics)
  /\ pc' = "reported"
  /\ UNCHANGED <<calls, added, written, source, lexer, program, tables, columns, diagnostics, next_stmt, exit_code>>

\* if checker.contains_error() { std::process::exit(1); }
ExitOnError ==
  /\ pc = "reported"
  /\ contains_error(diagnostics)
  /\ Exit(1)
  /\ UNCHANGED <<calls, added, written, source, lexer, program, tables, columns, diagnostics, next_stmt, stdout>>

\* A faulty run_compile: the SQL is printed whatever contains_error says.
EmitUngated ==
  /\ pc = "reported"
  /\ stdout' = Append(stdout, sql_output(program_to_sql(Unwrap(program))))
  /\ exit_code' = Some(0)
  /\ pc' = "exited"
  /\ UNCHANGED <<calls, added, written, source, lexer, program, tables, columns, diagnostics, next_stmt>>

\* let native = program.to_sql(); println!("{}", native); and main returns.
Emit ==
  /\ pc = "reported"
  /\ ~contains_error(diagnostics)
  /\ stdout' = Append(stdout, sql_output(program_to_sql(Unwrap(program))))
  /\ exit_code' = Some(0)
  /\ pc' = "exited"
  /\ UNCHANGED <<calls, added, written, source, lexer, program, tables, columns, diagnostics, next_stmt>>

Next ==
  \/ ParseOk
  \/ ParseFatal
  \/ ParsePanic
  \/ CheckStatement
  \/ Report
  \/ ExitOnError
  \/ Emit

Spec == Init /\ [][Next]_vars

(***************************************************************************)
(* DiagnosticsManager on its own: a caller that hands it any sequence of   *)
(* diagnostics, and asks it to report.                                     *)
(***************************************************************************)
\* The longest sequence of add calls.
MaxAdds == 3

DiagnosticSamples ==
  { diagnostic_from(error, range) :
      error \in {"MissingSelectClause", "DuplicateColumn", "RedundantSubQuery"},
      range \in {Range(0, 6), Range(7, 9)} }

\* DiagnosticsManager::new
InitManager ==
  /\ written = [stages |-> <<"FROM users">>, seps |-> <<>>]
  /\ source = Compose(written.stages, written.seps)
  /\ pc = "manager"
  /\ lexer = LexerNew(source)
  /\ program = None
  /\ tables = <<>>
  /\ columns = <<>>
  /\ diagnostics = <<>>
  /\ next_stmt = 1
  /\ stdout = <<>>
  /\ exit_code = None
  /\ added = <<>>
  /\ calls = <<>>

\* manager.add(diagnostic)
Add(diagnostic) ==
  /\ pc = "manager"
  /\ Len(added) < MaxAdds
  /\ diagnostics' = add(diagnostics, diagnostic)
  /\ added' = Append(added, diagnostic)
  /\ UNCHANGED <<calls, written, source, pc, lexer, program, tables, columns, next_stmt, stdout, exit_code>>

\* manager.report(&source); the caller of the model reports once.
ManagerReport ==
  /\ pc = "manager"
  /\ stdout = <<>>
  /\ diagnostics # <<>>
  /\ stdout' = stdout \o report_outputs(diagnostics)
  /\ UNCHANGED <<calls, added, written, source, pc, lexer, program, tables, columns, diagnostics, next_stmt, exit_code>>

NextManager ==
  \/ \E diagnostic \in DiagnosticSamples : Add(diagnostic)
  \/ ManagerReport

SpecManager == InitManager /\ [][NextManager]_vars

(***************************************************************************)
(* The Lexer on its own: a caller that makes any sequence of peek_token    *)
(* and next_token calls on the Lexer of one text.                          *)
(***************************************************************************)
\* The longest sequence of calls.
MaxCalls == 7

LexerInputs ==
  { "SELECT a, b FROM t",
    "select true _a$1 FROMAGE",
    "COUNT false Sum x9",
    "a |> b -- c",
    "x <= 1.5 != 'q'",
    "a @ b",
    "",
    "1.2.3 1..2 7",
    "10 2.5 7. x",
    "  a\t\n<= b  ",
    "f(\"s\"); -x",
    "[ ] + * / %",
    "= < > >= . ,",
    "'abc",
    "a ! b",
    "a | b" }

\* Lexer::new
InitLexer ==
  /\ written \in { [stages |-> <<text>>, seps |-> <<>>] : text \in LexerInputs }
  /\ source = Compose(written.stages, written.seps)
  /\ pc = "lexer"
  /\ lexer = LexerNew(source)
  /\ program = None
  /\ tables = <<>>
  /\ columns = <<>>
  /\ diagnostics = <<>>
  /\ next_stmt = 1
  /\ stdout = <<>>
  /\ exit_code = None
  /\ added = <<>>
  /\ calls = <<>>

\* One call of a method of the Lexer that returns a Token, or ends the process.
LexerCall(method, r) ==
  /\ lexer' = r.lx
  /\ IF r.st = "ok"
     THEN /\ calls' = Append(calls, [method |-> method, token |-> r.v])
          /\ UNCHANGED <<pc, stdout, exit_code>>
     ELSE /\ calls' = calls
          /\ ReportAndExit(r.message, r.range)
  /\ UNCHANGED <<added, written, source, program, tables, columns, diagnostics, next_stmt>>

\* lexer.peek_token()
PeekToken ==
  /\ pc = "lexer"
  /\ Len(calls) < MaxCalls
  /\ \E r \in {peek_token(lexer)} : LexerCall("peek_token", r)

\* lexer.next_token()
NextToken ==
  /\ pc = "lexer"
  /\ Len(calls) < MaxCalls
  /\ \E r \in {next_token(lexer)} : LexerCall("next_token", r)

NextLexer ==
  \/ PeekToken
  \/ NextToken

SpecLexer == InitLexer /\ [][NextLexer]_vars

(***************************************************************************)
(* The compile command on files that use one form of the grammar each:     *)
(* the same run_compile, started on these texts.                           *)
(***************************************************************************)
GrammarFiles ==
  { "SELECT name FROM users",
    "SELECT DISTINCT name FROM users",
    "SELECT DISTINCT a, b",
    "ORDER BY name",
    "ORDER BY name ASC",
    "ORDER BY name DESC",
    "ORDER BY a ASC, b DESC",
    "SELECT true FROM t",
    "WHERE active = true",
    "WHERE false = active",
    "AGGREGATE COUNT(true)",
    "SELECT f(false) FROM t",
    "AGGREGATE COUNT(x)",
    "AGGREGATE SUM(x)",
    "AGGREGATE AVG(x)",
    "AGGREGATE MIN(x)",
    "AGGREGATE MAX(x)",
    "SELECT f(x) FROM t",
    "SELECT now() FROM t",
    "WHERE now() = x",
    "WHERE x = now()",
    "AGGREGATE COUNT(now())",
    "SELECT a",
    "SELECT a, b FROM t",
    "SELECT a |> FROM t",
    "SELECT a, b |> WHERE a > 1",
    "SELECT a; FROM t",
    "AGGREGATE COUNT((SELECT a))",
    "AGGREGATE COUNT((SELECT a FROM t))",
    "FROM users",
    "FROM users |> WHERE age > 18",
    "FROM users; WHERE age > 18",
    "-- c\nFROM users",
    "-- c\n-- d\nFROM users |> WHERE age > 18",
    "FROM users; -- c\nWHERE age > 18",
    "FROM users |> -- c\nWHERE age > 18",
    "FROM users -- c",
    "FROM users\n-- c\n",
    "SELECT FROM users",
    "SELECT users.id FROM users",
    "SELECT id FROM users",
    "SELECT users.id, name FROM users",
    "SELECT t.a, t.b FROM t",
    "SELECT a.id, b.id FROM a",
    "SELECT a AS x FROM t",
    "SELECT f(x, y) FROM t",
    "GROUP BY dept",
    "GROUP BY a.b",
    "GROUP BY a.b, a.c",
    "ORDER BY a.b DESC",
    "ORDER BY a.b, a.c",
    "JOIN t ON a.b = c.d",
    "JOIN t ON a = b",
    "WHERE a.b = 1",
    "WHERE a = 'q'",
    "LIMIT 10",
    "LIMIT 10, 5",
    "AGGREGATE COUNT(x) AS n",
    "AGGREGATE SUM(a.b)" }

\* run_compile on one of these files; written holds the text as one piece.
InitGrammar ==
  /\ written \in { [stages |-> <<text>>, seps |-> <<>>] : text \in GrammarFiles }
  /\ source = Compose(written.stages, written.seps)
  /\ pc = "parse"
  /\ lexer = LexerNew(source)
  /\ program = None
  /\ tables = <<>>
  /\ columns = <<>>
  /\ diagnostics = <<>>
  /\ next_stmt = 1
  /\ stdout = <<>>
  /\ exit_code = None
  /\ added = <<>>
  /\ calls = <<>>

SpecGrammar == InitGrammar /\ [][Next]_vars

(***************************************************************************)
(* What the properties below speak of.                                     *)
(***************************************************************************)
\* Every separator of the file is a pipe: the file is one pipeline.
AllPiped == \A i \in DOMAIN written.seps : written.seps[i] = " |> "

\* The stages of a statement, by an in-order walk: left subtree, then right.
RECURSIVE InOrder(_)
InOrder(stmt) ==
  IF stmt.type = "Pipe" THEN InOrder(stmt.left) \o InOrder(stmt.right) ELSE <<stmt>>

\* The stages of a sequence of statements, in order.
RECURSIVE StagesOf(_)
StagesOf(statements) ==
  IF statements = <<>> THEN <<>> ELSE InOrder(statements[1]) \o StagesOf(Tail(statements))

\* The Pipe nodes of a statement.
RECURSIVE PipesOf(_)
PipesOf(stmt) ==
  IF stmt.type = "Pipe" THEN PipesOf(stmt.left) \o PipesOf(stmt.right) \o <<stmt>> ELSE <<>>

\* The Pipe nodes of the program.
RECURSIVE PipesOfAll(_)
PipesOfAll(statements) ==
  IF statements = <<>> THEN <<>> ELSE PipesOf(statements[1]) \o PipesOfAll(Tail(statements))

\* No Pipe node of the statement has a Pipe as its right operand.
RECURSIVE LeftDeep(_)
LeftDeep(stmt) ==
  stmt.type = "Pipe" => (stmt.right.type # "Pipe" /\ LeftDeep(stmt.left) /\ LeftDeep(stmt.right))

\* One stage text, parsed as a file of its own.
StageAlone(text) == parse(LexerNew(text))

StageNode(text) == StageAlone(text).v[1]

\* The statements Checker::check has visited so far.
Visited == IF IsSome(program) THEN SubSeq(Unwrap(program), 1, next_stmt - 1) ELSE <<>>

\* Checker::check has visited every statement.
Checked == IsSome(program) /\ next_stmt > Len(Unwrap(program))

SqlPrinted == \E i \in DOMAIN stdout : stdout[i].banner = "SQL"

SomeError == \E i \in DOMAIN diagnostics : diagnostics[i].severity = "Error"

\* A diagnostic with this message, this severity and this range is held.
Held(message, severity, range) ==
  \E k \in DOMAIN diagnostics :
    /\ diagnostics[k].message = message
    /\ diagnostics[k].severity = severity
    /\ diagnostics[k].range = range

(***************************************************************************)
(* Properties of the emitter and of the parser.                            *)
(***************************************************************************)
\* The renderings of the written stages, each parsed as a file of its own.
StageRenderings == [i \in DOMAIN written.stages |-> to_sql(StageNode(written.stages[i]))]

\* C1: a Pipe whose right operand is not an Aggregate renders as the
\* rendering of its left operand, one space, and the rendering of its right
\* operand.  So a parsed pipeline without an AGGREGATE stage renders as the
\* renderings of its stages in written order joined by single spaces, and
\* that is the text the run prints; SELECT name FROM users |> WHERE age > 18
\* renders exactly as SELECT name FROM users WHERE age > 18.
C1_PipeAppendsStage ==
  IsSome(program) =>
    /\ \A k \in DOMAIN PipesOfAll(Unwrap(program)) :
         LET pipe == PipesOfAll(Unwrap(program))[k]
         IN  pipe.right.type # "Aggregate" =>
               to_sql(pipe) = to_sql(pipe.left) \o " " \o to_sql(pipe.right)
    /\ (/\ AllPiped
        /\ \A i \in DOMAIN StagesOf(Unwrap(program)) : StagesOf(Unwrap(program))[i].type # "Aggregate") =>
         /\ \A i \in DOMAIN written.stages : StageAlone(written.stages[i]).st = "ok"
         /\ program_to_sql(Unwrap(program)) = Join(StageRenderings, " ")
         /\ SqlPrinted => stdout[Len(stdout)].message = Join(StageRenderings, " ")
    /\ (AllPiped /\ written.stages = <<"SELECT name FROM users", "WHERE age > 18">>) =>
         program_to_sql(Unwrap(program)) = "SELECT name FROM users WHERE age > 18"

\* C1, reached: the run of SELECT name FROM users |> WHERE age > 18 has
\* printed its SQL.
C1_Witness ==
  /\ pc = "exited"
  /\ AllPiped
  /\ written.stages = <<"SELECT name FROM users", "WHERE age > 18">>
  /\ Unwrap(program)[1].type = "Pipe"
  /\ SqlPrinted
  /\ stdout[Len(stdout)].message = "SELECT name FROM users WHERE age > 18"

\* C2: a Pipe whose right operand is an Aggregate renders, with base the
\* rendering of the left operand and func the text FN(arg)[ AS alias], as
\* SELECT func base when base starts with FROM and as SELECT func FROM base
\* otherwise; FROM users |> AGGREGATE COUNT(id) parses and renders exactly
\* as SELECT COUNT(id) FROM users.
C2_AggregateOverBase ==
  IsSome(program) =>
    /\ \A k \in DOMAIN PipesOfAll(Unwrap(program)) :
         LET pipe == PipesOfAll(Unwrap(program))[k]
             base == to_sql(pipe.left)
             func == aggregate_fn_emit(pipe.right.function) \o "(" \o expression_emit(pipe.right.argument)
                       \o ")" \o (IF IsSome(pipe.right.alias)
                                  THEN " AS " \o Unwrap(Unwrap(pipe.right.alias).lexeme) ELSE "")
         IN  pipe.right.type = "Aggregate" =>
               to_sql(pipe) = IF Len(base) >= 4 /\ SubSeq(base, 1, 4) = "FROM"
                              THEN "SELECT " \o func \o " " \o base
                              ELSE "SELECT " \o func \o " FROM " \o base
    /\ (AllPiped /\ written.stages = <<"FROM users", "AGGREGATE COUNT(id)">>) =>
         /\ program_to_sql(Unwrap(program)) = "SELECT COUNT(id) FROM users"
         /\ SqlPrinted => stdout[Len(stdout)].message = "SELECT COUNT(id) FROM users"

\* C2, reached: the run of FROM users |> AGGREGATE COUNT(id) has printed its SQL.
C2_Witness ==
  /\ pc = "exited"
  /\ AllPiped
  /\ written.stages = <<"FROM users", "AGGREGATE COUNT(id)">>
  /\ Unwrap(program)[1].type = "Pipe"
  /\ Unwrap(program)[1].right.type = "Aggregate"
  /\ SqlPrinted
  /\ stdout[Len(stdout)].message = "SELECT COUNT(id) FROM users"

\* C3: n stages joined by pipes parse into one left-deep chain: the right
\* operand of every Pipe node is a stage and not a Pipe, the right operand
\* of the outermost Pipe is the stage written last, and the in-order walk
\* (left subtree, then right) meets the stages in written order.
C3_LeftDeepPipeline ==
  (pc = "check" /\ AllPiped) =>
    LET statements == Unwrap(program)
        n == Len(written.stages)
    IN  /\ Len(statements) = 1
        /\ LeftDeep(statements[1])
        /\ Len(InOrder(statements[1])) = n
        /\ \A i \in 1..n :
             /\ StageAlone(written.stages[i]).st = "ok"
             /\ InOrder(statements[1])[i].type = StageNode(written.stages[i]).type
             /\ to_sql(InOrder(statements[1])[i]) = to_sql(StageNode(written.stages[i]))
        /\ n > 1 =>
             /\ statements[1].type = "Pipe"
             /\ statements[1].right.type = StageNode(written.stages[n]).type
             /\ to_sql(statements[1].right) = to_sql(StageNode(written.stages[n]))

\* C3, reached: a pipeline of three different stages has been parsed.
C3_Witness ==
  /\ IsSome(program)
  /\ AllPiped
  /\ written.stages = <<"FROM users", "WHERE age > 18", "AGGREGATE COUNT(id)">>
  /\ Unwrap(program)[1].type = "Pipe"
  /\ Unwrap(program)[1].left.type = "Pipe"
  /\ Unwrap(program)[1].right.type = "Aggregate"

(***************************************************************************)
(* Properties of the compile command.                                      *)
(***************************************************************************)
\* C4: once the checker has run, the SQL is printed if and only if no
\* Error diagnostic was collected (the run then ends with 0, and with 1
\* otherwise), so diagnostics that are all Warnings do not stop it; and when
\* the SQL is printed, every collected diagnostic was reported before it, in
\* order.
C4_EmissionGatedOnErrors ==
  /\ (pc = "exited" /\ IsSome(program)) =>
       /\ SqlPrinted <=> ~SomeError
       /\ exit_code = IF SomeError THEN Some(1) ELSE Some(0)
  /\ SqlPrinted =>
       /\ Checked
       /\ Len(stdout) = Len(diagnostics) + 1
       /\ stdout[Len(stdout)].banner = "SQL"
       /\ \A i \in DOMAIN diagnostics :
            /\ stdout[i].banner = IF diagnostics[i].severity = "Warning" THEN "WARNING >>>" ELSE "ERROR >>>"
            /\ stdout[i].message = diagnostics[i].message
            /\ stdout[i].start = diagnostics[i].range.start
            /\ stdout[i].end = diagnostics[i].range.end

\* C4, reached: the SQL was printed after a Warning was reported.
C4_Witness ==
  /\ pc = "exited"
  /\ SqlPrinted
  /\ diagnostics # <<>>
  /\ \A i \in DOMAIN diagnostics : diagnostics[i].severity = "Warning"
  /\ stdout[1].banner = "WARNING >>>"

\* C5: a lexical or a parse error is fatal: the run prints exactly one
\* diagnostic, the one of the first error, and ends with status 1; the
\* lexer has read nothing past that diagnostic, no Program exists, the
\* checker has not run and no SQL is printed.
C5_FatalError ==
  (pc \in {"check", "exited"} /\ next_stmt = 1 /\ parse(LexerNew(source)).st = "fatal") =>
    /\ pc = "exited"
    /\ exit_code = Some(1)
    /\ Len(stdout) = 1
    /\ stdout[1].banner = "ERROR >>>"
    /\ stdout[1].message = parse(LexerNew(source)).message
    /\ lexer.cursor = stdout[1].end
    /\ program = None
    /\ diagnostics = <<>> /\ tables = <<>> /\ columns = <<>> /\ next_stmt = 1
    /\ ~SqlPrinted
    /\ written.stages[1] = "WHERE age > @" =>
         stdout[1].message = "unexpected character '@'" /\ stdout[1].start = 12

\* C5, reached: a file with two errors has ended on the first.
C5_Witness ==
  /\ pc = "exited"
  /\ exit_code = Some(1)
  /\ program = None
  /\ written.stages = <<"WHERE age > @", "LIMIT many">>
  /\ Len(stdout) = 1

(***************************************************************************)
(* Properties of the diagnostics manager and of the checker.               *)
(***************************************************************************)
\* C6: after any sequence of add calls the manager holds exactly the
\* diagnostics it was handed, in the order of the calls, none removed,
\* filtered or merged with an equal one; and contains_error is true if and
\* only if one of them has Error severity.
C6_ManagerKeepsEverything ==
  pc = "manager" =>
    /\ diagnostics = added
    /\ contains_error(diagnostics) <=> \E i \in DOMAIN added : added[i].severity = "Error"

\* C6, reached: the same Warning was added twice, then an Error.
C6_Witness ==
  /\ pc = "manager"
  /\ Len(added) = 3
  /\ added[1] = added[2]
  /\ added[1].severity = "Warning"
  /\ added[3].severity = "Error"
  /\ Len(diagnostics) = 3
  /\ contains_error(diagnostics)

\* What one stage adds to a checker: the stage is checked by a checker that
\* holds the same tables and columns and no diagnostic at all, and what that
\* checker collects is appended.
VisitStage(ck, stage) ==
  LET fresh == check_statement([ck EXCEPT !.diagnostics = <<>>], stage)
  IN  [fresh EXCEPT !.diagnostics = ck.diagnostics \o fresh.diagnostics]

RECURSIVE VisitStages(_, _)
VisitStages(ck, stages) ==
  IF stages = <<>> THEN ck ELSE VisitStages(VisitStage(ck, stages[1]), Tail(stages))

\* C7: check never short-circuits: the statements are visited in order, a
\* Pipe by its left operand and then its right operand, and every stage
\* adds what its rule finds whatever diagnostics are already held; so the
\* checker holds what the stages visited so far add one after the other.
C7_CheckVisitsEveryStage ==
  IsSome(program) =>
    [diagnostics |-> diagnostics, tables |-> tables, columns |-> columns]
      = VisitStages(CheckerNew, StagesOf(Visited))

\* C7, reached: the left operand of a Pipe raised an Error and the right
\* operand was checked all the same.
C7_Witness ==
  /\ Checked
  /\ AllPiped
  /\ written.stages = <<"SELECT FROM users", "GROUP BY">>
  /\ Unwrap(program)[1].type = "Pipe"
  /\ Len(diagnostics) = 2
  /\ diagnostics[1].message = "missing 'SELECT' clause"
  /\ diagnostics[2].message = "missing 'GROUP BY' clause"

\* The plain column expressions of a SELECT list, in order.
RECURSIVE PlainColumns(_)
PlainColumns(expressions) ==
  IF expressions = <<>> THEN <<>>
  ELSE (IF expressions[1].expression.type = "Column" THEN <<expressions[1].expression>> ELSE <<>>)
         \o PlainColumns(Tail(expressions))

\* The plain column expressions of the SELECT lists of these stages, in traversal order.
RECURSIVE SelectedColumns(_)
SelectedColumns(stages) ==
  IF stages = <<>> THEN <<>>
  ELSE (IF stages[1].type = "Select" THEN PlainColumns(stages[1].expressions) ELSE <<>>)
         \o SelectedColumns(Tail(stages))

\* C8: duplicate columns are found across the whole run: a plain column
\* expression of a SELECT list has a duplicate-column Warning if and only if
\* a column of the same name stands earlier in a SELECT list of the run, in
\* the same SELECT or in a statement before it.
C8_DuplicateColumnsAcrossRun ==
  LET cols == SelectedColumns(StagesOf(Visited))
  IN  \A i \in DOMAIN cols :
        Held("duplicate column", "Warning",
             Range((IF IsSome(cols[i].table) THEN Unwrap(cols[i].table) ELSE cols[i].column).range.start,
                   cols[i].column.range.end))
          <=> \E j \in 1..(i - 1) : cols[j].column.lexeme = cols[i].column.lexeme

\* C8, reached: two statements select the same column, and the second got
\* the Warning.
C8_Witness ==
  /\ Checked
  /\ written.stages = <<"SELECT name FROM users", "SELECT name FROM users">>
  /\ written.seps = <<"; ">>
  /\ Len(Unwrap(program)) = 2
  /\ Len(diagnostics) = 1
  /\ diagnostics[1].message = "duplicate column"
  /\ diagnostics[1].range = Range(31, 35)

\* C9 as the specification states it: checking WHERE status = "OR" raises
\* the diagnostic that discourages OR.
C9_AsStated ==
  (Checked /\ written.stages = <<"WHERE status = \"OR\"">>) =>
    \E k \in DOMAIN diagnostics : diagnostics[k].message = "unsupported operator"

\* C9, as the code has it: a WHERE stage gets the diagnostic that
\* discourages OR if and only if its rendered condition holds OR between two
\* spaces.  WHERE status = "OR" renders as status = 'OR', where OR stands
\* between quotes, and gets none; WHERE note = 'a OR b', which has no logical
\* OR either, gets it.
C9_OrBetweenSpaces ==
  /\ \A i \in DOMAIN StagesOf(Visited) :
       LET stage == StagesOf(Visited)[i]
       IN  stage.type = "Where" =>
             (Held("unsupported operator", "Error", stage.range)
                <=> \E at \in 1..(Len(expression_emit(stage.condition)) - 3) :
                      SubSeq(expression_emit(stage.condition), at, at + 3) = " OR ")
  /\ (Checked /\ written.stages = <<"WHERE status = \"OR\"">>) =>
       /\ expression_emit(Unwrap(program)[1].condition) = "status = 'OR'"
       /\ diagnostics = <<>>
  /\ (Checked /\ written.stages = <<"WHERE note = 'a OR b'">>) =>
       /\ Unwrap(program)[1].condition.operator = "Equal"
       /\ Len(diagnostics) = 1
       /\ diagnostics[1].message = "unsupported operator"

\* C9, reached: WHERE status = "OR" was checked and no diagnostic is held.
C9_Witness ==
  /\ Checked
  /\ written.stages = <<"WHERE status = \"OR\"">>
  /\ Unwrap(program)[1].type = "Where"
  /\ Unwrap(program)[1].condition.right.value = "OR"
  /\ diagnostics = <<>>

ErrorMessages == {"missing 'SELECT' clause", "unsupported operator", "missing 'GROUP BY' clause"}

WarningMessages == {"duplicate column", "missing index on join", "redundant subquery"}

\* C10: the diagnostics of the checker have fixed severities.  An empty
\* SELECT list, a WHERE whose rendered condition holds OR between spaces and
\* an empty GROUP BY list are Errors; a table named by two FROM stages, a
\* duplicate column, a JOIN on a table no FROM stage named before, and a
\* subquery as the argument of an aggregate are Warnings.  So the SQL is
\* printed when only Warnings of the latter kinds are held and is not
\* printed when one of the former is.
C10_FixedSeverities ==
  /\ \A k \in DOMAIN diagnostics :
       \/ diagnostics[k].message \in ErrorMessages /\ diagnostics[k].severity = "Error"
       \/ diagnostics[k].message \in WarningMessages /\ diagnostics[k].severity = "Warning"
  /\ \A i \in DOMAIN StagesOf(Visited) :
       LET stages == StagesOf(Visited)
           stage == stages[i]
       IN  /\ (stage.type = "Select" /\ stage.expressions = <<>>) =>
                Held("missing 'SELECT' clause", "Error", stage.range)
           /\ (stage.type = "Where" /\ Contains(expression_emit(stage.condition), " OR ")) =>
                Held("unsupported operator", "Error", stage.range)
           /\ (stage.type = "GroupBy" /\ stage.columns = <<>>) =>
                Held("missing 'GROUP BY' clause", "Error", stage.range)
           /\ (stage.type = "Aggregate" /\ stage.argument.type = "Subquery") =>
                Held("redundant subquery", "Warning", stage.range)
           /\ (/\ stage.type = "From"
               /\ \E j \in 1..(i - 1) : stages[j].type = "From" /\ stages[j].table.lexeme = stage.table.lexeme) =>
                Held("duplicate column", "Warning", Range(stage.range.start, stage.table.range.end))
           /\ (/\ stage.type = "Join"
               /\ ~\E j \in 1..(i - 1) : stages[j].type = "From" /\ stages[j].table.lexeme = stage.table.lexeme) =>
                \E k \in DOMAIN diagnostics :
                  diagnostics[k].message = "missing index on join" /\ diagnostics[k].severity = "Warning"
  /\ (pc = "exited" /\ IsSome(program)) =>
       (SqlPrinted <=> ~\E k \in DOMAIN diagnostics : diagnostics[k].message \in ErrorMessages)

\* C10, reached: a subquery inside an aggregate and a JOIN on an unnamed
\* table gave two Warnings, and the SQL was printed.
C10_Witness ==
  /\ pc = "exited"
  /\ written.stages = <<"AGGREGATE SUM((FROM users)) AS total", "JOIN users ON a = b">>
  /\ Len(diagnostics) = 2
  /\ diagnostics[1].message = "redundant subquery" /\ diagnostics[1].severity = "Warning"
  /\ diagnostics[2].message = "missing index on join" /\ diagnostics[2].severity = "Warning"
  /\ SqlPrinted

\* The table names the From stages among these stages record, each at its
\* first occurrence, in order.
RECURSIVE FromTables(_)
FromTables(stages) ==
  IF stages = <<>> THEN <<>>
  ELSE LET before == FromTables(SubSeq(stages, 1, Len(stages) - 1))
           last == stages[Len(stages)]
       IN  IF last.type = "From" /\ ~VecContains(before, Unwrap(last.table.lexeme))
           THEN Append(before, Unwrap(last.table.lexeme))
           ELSE before

\* C11: a Join stage gets a Warning if and only if no From stage visited
\* before it in the run named its table; a From stage records its table the
\* first time and gets the duplicate Warning, the set left as it is, every
\* later time; a Join stage never changes the set.  So the set holds the
\* tables of the From stages visited, each once, and nothing else.
C11_JoinAgainstSeenTables ==
  LET stages == StagesOf(Visited)
  IN  /\ tables = FromTables(stages)
      /\ \A i \in DOMAIN stages :
           LET named == \E j \in 1..(i - 1) :
                          stages[j].type = "From" /\ stages[j].table.lexeme = stages[i].table.lexeme
           IN  /\ stages[i].type = "Join" =>
                    (Held("missing index on join", "Warning", join_get_range(stages[i])) <=> ~named)
               /\ stages[i].type = "From" =>
                    (Held("duplicate column", "Warning", from_get_range(stages[i])) <=> named)

\* C11, reached: after FROM users, the JOIN on users got no Warning, the
\* JOIN on orders got one, and the set holds users alone.
C11_Witness ==
  /\ Checked
  /\ AllPiped
  /\ written.stages = <<"FROM users", "JOIN users ON a = b", "JOIN orders ON a = b">>
  /\ tables = <<"users">>
  /\ Len(diagnostics) = 1
  /\ diagnostics[1].message = "missing index on join"
  /\ diagnostics[1].severity = "Warning"

(***************************************************************************)
(* Properties of the lexer.                                                *)
(***************************************************************************)
\* The tokens n calls of next_token return, one after the other, from this
\* lexer; fewer when a call ends the process.
RECURSIVE NextTokens(_, _)
NextTokens(lx, n) ==
  IF n = 0 THEN <<>>
  ELSE LET r == next_token(lx)
       IN  IF r.st = "ok" THEN <<r.v>> \o NextTokens(r.lx, n - 1) ELSE <<>>

\* How many of the first n calls were next_token.
NextCallsBefore(n) == Cardinality({ j \in 1..n : calls[j].method = "next_token" })

\* C12: the lexer looks one token ahead.  peek_token returns the token the
\* next call of next_token returns, and changes nothing any later next_token
\* returns; peek_token calls in a row return the same token; and for every
\* input the tokens next_token returns are those it returns when no
\* peek_token is called in between.
C12_PeekIsLookahead ==
  pc \in {"lexer", "exited"} =>
    LET plain == NextTokens(LexerNew(source), NextCallsBefore(Len(calls)) + 1)
    IN  /\ \A i \in DOMAIN calls :
             /\ NextCallsBefore(i - 1) < Len(plain)
             /\ calls[i].token = plain[NextCallsBefore(i - 1) + 1]
             /\ (calls[i].method = "peek_token" /\ i < Len(calls)) => calls[i + 1].token = calls[i].token
        \* a call that ended the process: next_token alone ends it after the same tokens
        /\ pc = "exited" => Len(plain) = NextCallsBefore(Len(calls))

\* C12, reached: two peeks, a next, a peek and a next on SELECT a, b FROM t
\* returned SELECT three times and then a twice.
C12_Witness ==
  /\ pc = "lexer"
  /\ source = "SELECT a, b FROM t"
  /\ [i \in DOMAIN calls |-> calls[i].method]
       = <<"peek_token", "peek_token", "next_token", "peek_token", "next_token">>
  /\ [i \in DOMAIN calls |-> calls[i].token.kind]
       = <<"Select", "Select", "Select", "Identifier", "Identifier">>
  /\ calls[5].token.lexeme = Some("a")

\* The upper-case words of the table of create_identifier, and the kind of each.
KeywordKinds ==
  ("SELECT" :> "Select") @@ ("FROM" :> "From") @@ ("WHERE" :> "Where") @@ ("ORDER" :> "Order")
  @@ ("BY" :> "By") @@ ("ASC" :> "Asc") @@ ("DESC" :> "Desc") @@ ("LIMIT" :> "Limit")
  @@ ("OFFSET" :> "Offset") @@ ("JOIN" :> "Join") @@ ("ON" :> "On") @@ ("GROUP" :> "Group")
  @@ ("HAVING" :> "Having") @@ ("AS" :> "As") @@ ("UNION" :> "Union") @@ ("WITH" :> "With")
  @@ ("CASE" :> "Case") @@ ("END" :> "End") @@ ("AGGREGATE" :> "Aggregate") @@ ("AND" :> "And")
  @@ ("OR" :> "Or") @@ ("COUNT" :> "Count") @@ ("SUM" :> "Sum")

IdentifierStart == AsciiAlphabetic \cup {"_"}

IdentifierPart == AsciiAlphabetic \cup AsciiDigit \cup {"_", "$"}

\* The text of the source a token spans.
Lexeme(token) == SubSeq(source, token.range.start + 1, token.range.end)

\* The tokens the calls returned whose text starts as an identifier does.
IdentifierShaped ==
  { calls[i].token : i \in { j \in DOMAIN calls :
      /\ Len(Lexeme(calls[j].token)) > 0
      /\ SubSeq(Lexeme(calls[j].token), 1, 1) \in IdentifierStart } }

\* The longest run of identifier characters: every character of the token
\* is one, and the character after it is not.
WholeIdentifier(token) ==
  /\ \A k \in 1..Len(Lexeme(token)) : SubSeq(Lexeme(token), k, k) \in IdentifierPart
  /\ token.range.end < Len(source) =>
       SubSeq(source, token.range.end + 1, token.range.end + 1) \notin IdentifierPart

\* C13 as the specification states it: an identifier-shaped lexeme is a
\* keyword token exactly when it is an upper-case keyword of the table, and
\* is otherwise an Identifier token that carries the lexeme.
C13_AsStated ==
  \A token \in IdentifierShaped :
    IF Lexeme(token) \in DOMAIN KeywordKinds
    THEN token.kind = KeywordKinds[Lexeme(token)]
    ELSE token.kind = "Identifier" /\ token.lexeme = Some(Lexeme(token))

\* C13, as the code has it: a lexeme that starts with a letter or an
\* underscore runs over letters, digits, underscores and dollar signs; it is
\* the keyword token, without a lexeme, of the upper-case word of the table
\* it equals, a Boolean token that carries the lexeme when it is true or
\* false, and otherwise an Identifier token that carries the lexeme.  So
\* SELECT a, b FROM t gives Select, Identifier a, Comma, Identifier b, From,
\* Identifier t, EOF, and select in lower case is an Identifier.
C13_KeywordOrBooleanOrIdentifier ==
  /\ \A token \in IdentifierShaped :
       /\ WholeIdentifier(token)
       /\ CASE Lexeme(token) \in DOMAIN KeywordKinds ->
                 token.kind = KeywordKinds[Lexeme(token)] /\ token.lexeme = None
            [] Lexeme(token) \in {"true", "false"} ->
                 token.kind = "Boolean" /\ token.lexeme = Some(Lexeme(token))
            [] OTHER ->
                 token.kind = "Identifier" /\ token.lexeme = Some(Lexeme(token))
  /\ (/\ source = "SELECT a, b FROM t"
      /\ Len(calls) = 7
      /\ \A i \in DOMAIN calls : calls[i].method = "next_token") =>
       [i \in DOMAIN calls |-> <<calls[i].token.kind, calls[i].token.lexeme>>]
         = << <<"Select", None>>, <<"Identifier", Some("a")>>, <<"Comma", None>>,
              <<"Identifier", Some("b")>>, <<"From", None>>, <<"Identifier", Some("t")>>,
              <<"EOF", None>> >>
  /\ (source = "select true _a$1 FROMAGE" /\ Len(calls) >= 1) =>
       calls[1].token.kind = "Identifier" /\ calls[1].token.lexeme = Some("select")

\* C13, reached: select, true, _a$1 and FROMAGE were read: two Identifiers,
\* a Boolean, and a word that only starts as a keyword does.
C13_Witness ==
  /\ pc = "lexer"
  /\ source = "select true _a$1 FROMAGE"
  /\ [i \in DOMAIN calls |-> calls[i].method] = <<"next_token", "next_token", "next_token", "next_token">>
  /\ [i \in DOMAIN calls |-> calls[i].token.kind] = <<"Identifier", "Boolean", "Identifier", "Identifier">>
  /\ calls[2].token.lexeme = Some("true")
  /\ calls[3].token.lexeme = Some("_a$1")
  /\ calls[4].token.lexeme = Some("FROMAGE")

(***************************************************************************)
(* Properties of the grammar the parser accepts.                           *)
(***************************************************************************)
\* parse() is over on this text: it returned, or it ended the process.
Parsed(text) == pc # "parse" /\ source = text

\* The only statement of the program parse() returned.
OnlyStatement == Unwrap(program)[1]

\* The statements of this text, parsed as a file of its own.
ProgramOf(text) == parse(LexerNew(text)).v

\* The variants of the stages of these statements, in order.
StageTypes(statements) == [i \in DOMAIN StagesOf(statements) |-> StagesOf(statements)[i].type]

\* C14: SELECT DISTINCT exprs parses into a SelectStatement with distinct
\* true whose expressions are exactly exprs, the word DISTINCT not being one
\* of them, and renders as SELECT DISTINCT exprs.
C14_AsStated ==
  \A exprs \in {"name FROM users", "a, b"} :
    Parsed("SELECT DISTINCT " \o exprs) =>
      /\ IsSome(program)
      /\ Len(Unwrap(program)) = 1
      /\ OnlyStatement.type = "Select"
      /\ OnlyStatement.distinct = TRUE
      /\ select_expressions_emit(OnlyStatement.expressions)
           = select_expressions_emit(ProgramOf("SELECT " \o exprs)[1].expressions)
      /\ to_sql(OnlyStatement) = "SELECT DISTINCT " \o exprs

\* C15: an order column takes an optional ASC or DESC: col ASC and col
\* parse to the direction Asc, col DESC to Desc, and none of the three is a
\* parse error.
C15_AsStated ==
  /\ \A text \in {"ORDER BY name", "ORDER BY name ASC", "ORDER BY name DESC"} :
       Parsed(text) =>
         /\ IsSome(program)
         /\ Len(Unwrap(program)) = 1
         /\ OnlyStatement.type = "Order"
         /\ Len(OnlyStatement.columns) = 1
         /\ OnlyStatement.columns[1].direction = (IF text = "ORDER BY name DESC" THEN "Desc" ELSE "Asc")
  /\ Parsed("ORDER BY a ASC, b DESC") =>
       /\ IsSome(program)
       /\ Len(Unwrap(program)) = 1
       /\ [i \in DOMAIN OnlyStatement.columns |-> OnlyStatement.columns[i].direction] = <<"Asc", "Desc">>

\* A Boolean Literal expression of this value.
IsBoolean(expression, value) ==
  expression.type = "Literal" /\ expression.literal = "Boolean" /\ expression.value = value

\* C16: true and false parse to a Boolean Literal expression wherever an
\* expression is expected: in a select list, on either side of a WHERE
\* condition, as the argument of an aggregate or of a function.
C16_AsStated ==
  /\ Parsed("SELECT true FROM t") =>
       IsSome(program) /\ IsBoolean(OnlyStatement.expressions[1].expression, "true")
  /\ Parsed("WHERE active = true") =>
       IsSome(program) /\ IsBoolean(OnlyStatement.condition.right, "true")
  /\ Parsed("WHERE false = active") =>
       IsSome(program) /\ IsBoolean(OnlyStatement.condition.left, "false")
  /\ Parsed("AGGREGATE COUNT(true)") =>
       IsSome(program) /\ IsBoolean(OnlyStatement.argument, "true")
  /\ Parsed("SELECT f(false) FROM t") =>
       IsSome(program) /\ IsBoolean(OnlyStatement.expressions[1].expression.arguments[1], "false")

\* The aggregate function names the specification lists, and the kind of each.
AggregateNames ==
  ("COUNT" :> "Count") @@ ("SUM" :> "Sum") @@ ("AVG" :> "Avg") @@ ("MIN" :> "Min") @@ ("MAX" :> "Max")

\* C17: AGGREGATE fn(expr) is accepted for COUNT, SUM, AVG, MIN and MAX:
\* the name lexes to its own token kind and parses to the AggregateFn of
\* that name, which renders as the name.
C17_AsStated ==
  \A name \in DOMAIN AggregateNames :
    Parsed("AGGREGATE " \o name \o "(x)") =>
      /\ NextTokens(LexerNew(source), 2)[2].kind = AggregateNames[name]
      /\ IsSome(program)
      /\ OnlyStatement.type = "Aggregate"
      /\ OnlyStatement.function = AggregateNames[name]
      /\ aggregate_fn_emit(OnlyStatement.function) = name

\* A FunctionCall of now without arguments.
IsEmptyCall(expression) ==
  /\ expression.type = "FunctionCall"
  /\ expression.function_name.lexeme = Some("now")
  /\ expression.arguments = <<>>

\* C18: name() is a valid expression: in a select list, in a WHERE
\* condition and as the argument of an aggregate the parse completes with
\* a FunctionCall of zero arguments, and the range of the node is computed
\* (the process does not panic).
C18_AsStated ==
  /\ \A text \in {"SELECT now() FROM t", "WHERE now() = x", "WHERE x = now()", "AGGREGATE COUNT(now())"} :
       Parsed(text) => exit_code # Some(101) /\ IsSome(program)
  /\ Parsed("SELECT now() FROM t") => IsEmptyCall(OnlyStatement.expressions[1].expression)
  /\ Parsed("WHERE now() = x") => IsEmptyCall(OnlyStatement.condition.left)
  /\ Parsed("WHERE x = now()") => IsEmptyCall(OnlyStatement.condition.right)
  /\ Parsed("AGGREGATE COUNT(now())") => IsEmptyCall(OnlyStatement.argument)

\* C19: the select list ends at the first token that does not continue it
\* and the inline FROM is optional: a SELECT without it may be followed by
\* a pipe and a further stage, by a semicolon, or by the parenthesis that
\* closes a subquery, and parses with from absent.
C19_AsStated ==
  /\ Parsed("SELECT a") =>
       IsSome(program) /\ OnlyStatement.type = "Select" /\ OnlyStatement.from = None
  /\ Parsed("SELECT a |> FROM t") =>
       /\ IsSome(program)
       /\ StageTypes(Unwrap(program)) = <<"Select", "From">>
       /\ OnlyStatement.left.from = None
       /\ Len(OnlyStatement.left.expressions) = 1
  /\ Parsed("SELECT a, b |> WHERE a > 1") =>
       /\ IsSome(program)
       /\ StageTypes(Unwrap(program)) = <<"Select", "Where">>
       /\ OnlyStatement.left.from = None
       /\ Len(OnlyStatement.left.expressions) = 2
  /\ Parsed("SELECT a; FROM t") =>
       /\ IsSome(program)
       /\ StageTypes(Unwrap(program)) = <<"Select", "From">>
       /\ Len(Unwrap(program)) = 2
       /\ Unwrap(program)[1].from = None
  /\ Parsed("AGGREGATE COUNT((SELECT a))") =>
       /\ IsSome(program)
       /\ OnlyStatement.argument.type = "Subquery"
       /\ OnlyStatement.argument.stmt.type = "Select"
       /\ OnlyStatement.argument.stmt.from = None

\* A text with line comments, and the same text without them.
Commented ==
  ("-- c\nFROM users" :> "FROM users")
  @@ ("-- c\n-- d\nFROM users |> WHERE age > 18" :> "FROM users |> WHERE age > 18")
  @@ ("FROM users; -- c\nWHERE age > 18" :> "FROM users; WHERE age > 18")
  @@ ("FROM users |> -- c\nWHERE age > 18" :> "FROM users |> WHERE age > 18")
  @@ ("FROM users -- c" :> "FROM users")
  @@ ("FROM users\n-- c\n" :> "FROM users")

\* C20: the parser discards the Comment tokens: a line comment before a
\* statement, before a stage that follows a pipe, or after the last
\* statement is skipped without a parse error, and the Program is the one
\* of the text without the comment (the same statements and stages, with
\* the same rendering).
C20_AsStated ==
  \A text \in DOMAIN Commented :
    Parsed(text) =>
      /\ IsSome(program)
      /\ Len(Unwrap(program)) = Len(ProgramOf(Commented[text]))
      /\ StageTypes(Unwrap(program)) = StageTypes(ProgramOf(Commented[text]))
      /\ program_to_sql(Unwrap(program)) = program_to_sql(ProgramOf(Commented[text]))

(***************************************************************************)
(* Properties of columns.                                                  *)
(***************************************************************************)
\* The Column nodes of an expression and of a statement, subqueries included.
RECURSIVE ColumnsIn(_)
RECURSIVE ColumnsOf(_)
ColumnsIn(e) ==
  CASE e.type = "Column" -> {e}
    [] e.type = "Condition" -> ColumnsIn(e.left) \cup ColumnsIn(e.right)
    [] e.type = "FunctionCall" -> UNION { ColumnsIn(e.arguments[i]) : i \in DOMAIN e.arguments }
    [] e.type = "Subquery" -> ColumnsOf(e.stmt)
    [] OTHER -> {}

ColumnsOf(stmt) ==
  CASE stmt.type = "Pipe" -> ColumnsOf(stmt.left) \cup ColumnsOf(stmt.right)
    [] stmt.type = "Select" ->
         UNION { ColumnsIn(stmt.expressions[i].expression) : i \in DOMAIN stmt.expressions }
    [] stmt.type = "Join" -> ColumnsIn(stmt.on)
    [] stmt.type = "Where" -> ColumnsIn(stmt.condition)
    [] stmt.type = "GroupBy" -> UNION { ColumnsIn(stmt.columns[i]) : i \in DOMAIN stmt.columns }
    [] stmt.type = "Order" -> UNION { ColumnsIn(stmt.columns[i].column) : i \in DOMAIN stmt.columns }
    [] stmt.type = "Aggregate" -> ColumnsIn(stmt.argument)
    [] OTHER -> {}

\* The Column nodes of the program parse() returned.
ProgramColumns ==
  IF IsSome(program) THEN UNION { ColumnsOf(Unwrap(program)[i]) : i \in DOMAIN Unwrap(program) } ELSE {}

\* C21: a ColumnExpression with a table qualifier renders as the text of
\* its column token, a dot, and the text of its table token; one without a
\* qualifier renders as the text of its column token alone.  The run of
\* SELECT users.id FROM users, whose Column holds users as column and id as
\* table, prints users.id.
C21_ColumnThenTable ==
  /\ \A col \in ProgramColumns :
       column_emit(col) = IF IsSome(col.table)
                          THEN Lexeme(col.column) \o "." \o Lexeme(Unwrap(col.table))
                          ELSE Lexeme(col.column)
  /\ (Parsed("SELECT users.id FROM users") /\ SqlPrinted) =>
       /\ Lexeme(OnlyStatement.expressions[1].expression.column) = "users"
       /\ Lexeme(Unwrap(OnlyStatement.expressions[1].expression.table)) = "id"
       /\ stdout[Len(stdout)].message = "SELECT users.id FROM users"
  /\ (Parsed("SELECT id FROM users") /\ SqlPrinted) =>
       stdout[Len(stdout)].message = "SELECT id FROM users"

\* C21, reached: a run with a qualified and a plain column has printed.
C21_Witness ==
  /\ SqlPrinted
  /\ \E col \in ProgramColumns : IsSome(col.table) /\ Lexeme(col.column) # Lexeme(Unwrap(col.table))
  /\ \E col \in ProgramColumns : ~IsSome(col.table)

(***************************************************************************)
(* Properties of the tokens.                                               *)
(***************************************************************************)
\* How many dots a text holds.
Dots(text) == Cardinality({ k \in 1..Len(text) : SubSeq(text, k, k) = "." })

\* The Number tokens the calls returned.
NumberTokens == { calls[i].token : i \in { j \in DOMAIN calls : calls[j].token.kind = "Number" } }

\* C22: a Number token is a run of ASCII digits with at most one dot in it:
\* no Number token has a lexeme with two or more dots, such as 1.2.3 or 1..2.
C22_AsStated ==
  \A token \in NumberTokens :
    /\ IsSome(token.lexeme)
    /\ \A k \in 1..Len(Unwrap(token.lexeme)) :
         SubSeq(Unwrap(token.lexeme), k, k) \in AsciiDigit \cup {"."}
    /\ Dots(Unwrap(token.lexeme)) <= 1

\* The tokens the calls returned.
ReturnedTokens == { calls[i].token : i \in DOMAIN calls }

\* C23 as the specification states it: a token carries a lexeme exactly
\* when its kind is Identifier, String, Number or Boolean; keywords,
\* operators, punctuation, the pipe, comments and EOF carry none.
C23_AsStated ==
  \A token \in ReturnedTokens :
    IsSome(token.lexeme) <=> token.kind \in {"Identifier", "String", "Number", "Boolean"}

\* C23, as the code has it: a token carries a lexeme exactly when its kind
\* is Identifier, String, Number, Boolean or Comment.  The lexeme of an
\* Identifier, a Boolean or a Number is the text of the token, that of a
\* String is the text between its quotes, and that of a Comment is the text
\* after the two dashes up to the end of the line.
C23_LexemeOfKinds ==
  \A token \in ReturnedTokens :
    /\ IsSome(token.lexeme) <=> token.kind \in {"Identifier", "String", "Number", "Boolean", "Comment"}
    /\ token.kind \in {"Identifier", "Number", "Boolean"} => token.lexeme = Some(Lexeme(token))
    /\ token.kind = "String" =>
         token.lexeme = Some(SubSeq(Lexeme(token), 2, Len(Lexeme(token)) - 1))
    /\ token.kind = "Comment" =>
         /\ SubSeq(Lexeme(token), 1, 2) = "--"
         /\ token.lexeme = Some(SubSeq(Lexeme(token), 3, Len(Lexeme(token))))

\* C23, reached: a |> b -- c was read to its end: two Identifiers with
\* their lexemes, a Pipe and an EOF without one, and a Comment that carries
\* the text after the dashes.
C23_Witness ==
  /\ pc = "lexer"
  /\ source = "a |> b -- c"
  /\ [i \in DOMAIN calls |-> <<calls[i].method, calls[i].token.kind, calls[i].token.lexeme>>]
       = << <<"next_token", "Identifier", Some("a")>>, <<"next_token", "Pipe", None>>,
            <<"next_token", "Identifier", Some("b")>>, <<"next_token", "Comment", Some(" c")>>,
            <<"next_token", "EOF", None>> >>

\* How the tokens of one fixed text are written.
Spelling ==
  ("LeftBracket" :> "[") @@ ("RightBracket" :> "]") @@ ("Plus" :> "+") @@ ("Minus" :> "-")
  @@ ("Asterisk" :> "*") @@ ("Slash" :> "/") @@ ("Percent" :> "%") @@ ("Equal" :> "=")
  @@ ("LeftParen" :> "(") @@ ("RightParen" :> ")") @@ ("Comma" :> ",") @@ ("Semicolon" :> ";")
  @@ ("Dot" :> ".") @@ ("LessThan" :> "<") @@ ("LessThanOrEqual" :> "<=") @@ ("GreaterThan" :> ">")
  @@ ("GreaterThanOrEqual" :> ">=") @@ ("NotEqual" :> "!=") @@ ("Pipe" :> "|>") @@ ("EOF" :> "")

\* Every character of the source from offset from up to offset to is whitespace.
OnlyWhitespace(from, to) ==
  \A k \in (from + 1)..to : SubSeq(source, k, k) \in Whitespace

\* C24: the range of every token is its own span.  It starts at the first
\* character of the token, after the whitespace that was skipped, and ends
\* just past its last character; the tokens of a text follow each other in
\* increasing order without overlap, with nothing but whitespace between
\* them; and peek_token and next_token return the token with the same
\* range.
C24_RangeIsOwnSpan ==
  pc \in {"lexer", "exited"} =>
    LET plain == NextTokens(LexerNew(source), NextCallsBefore(Len(calls)) + 1)
    IN  /\ \A i \in DOMAIN calls :
             LET token == calls[i].token
             IN  /\ 0 <= token.range.start
                 /\ token.range.start <= token.range.end
                 /\ token.range.end <= Len(source)
                 \* the first character is the token's own, and so is the last
                 /\ token.range.start < token.range.end =>
                      /\ SubSeq(source, token.range.start + 1, token.range.start + 1) \notin Whitespace
                      /\ (token.kind # "Comment" =>
                            SubSeq(source, token.range.end, token.range.end) \notin Whitespace)
                 /\ token.kind \in DOMAIN Spelling => Lexeme(token) = Spelling[token.kind]
                 /\ token.kind \in {"Identifier", "Number", "Boolean"} => Lexeme(token) = Unwrap(token.lexeme)
                 /\ token.kind = "String" =>
                      \E quote \in {"\"", "'"} : Lexeme(token) = quote \o Unwrap(token.lexeme) \o quote
                 /\ token.kind = "Comment" => Lexeme(token) = "--" \o Unwrap(token.lexeme)
                 /\ token.kind = "EOF" => token.range.start = Len(source)
                 \* read on its own, the text of the token is this one token
                 /\ LET alone == read_next_token(LexerNew(Lexeme(token)))
                    IN  /\ alone.st = "ok"
                        /\ alone.v.kind = token.kind
                        /\ alone.v.range = Range(0, Len(Lexeme(token)))
                 \* peek_token and next_token return it with the same range
                 /\ NextCallsBefore(i - 1) < Len(plain)
                 /\ token.range = plain[NextCallsBefore(i - 1) + 1].range
        /\ \A k \in DOMAIN plain :
             /\ OnlyWhitespace(IF k = 1 THEN 0 ELSE plain[k - 1].range.end, plain[k].range.start)
             /\ k > 1 =>
                  /\ plain[k - 1].range.end <= plain[k].range.start
                  /\ plain[k - 1].range.start < plain[k].range.start \/ plain[k - 1].kind = "EOF"

\* C24, reached: a, <= and b were read from a text with blanks, a tab and a
\* line break around them, the first through peek_token and next_token.
C24_Witness ==
  /\ pc = "lexer"
  /\ source = "  a\t\n<= b  "
  /\ [i \in DOMAIN calls |-> <<calls[i].method, calls[i].token.kind, calls[i].token.range>>]
       = << <<"peek_token", "Identifier", Range(2, 3)>>, <<"next_token", "Identifier", Range(2, 3)>>,
            <<"next_token", "LessThanOrEqual", Range(5, 7)>>, <<"next_token", "Identifier", Range(8, 9)>>,
            <<"next_token", "EOF", Range(11, 11)>> >>

(***************************************************************************)
(* Properties of the ranges of the nodes.                                  *)
(***************************************************************************)
\* The ranges of an expression and of a statement: what get_range returns
\* for the node and for every node below it, and the range a Column keeps.
RECURSIVE RangesIn(_)
RECURSIVE RangesOf(_)
RangesIn(e) ==
  (IF expression_get_range_panics(e) THEN {} ELSE {expression_get_range(e)})
  \cup
  CASE e.type = "Column" -> {e.range}
    [] e.type = "Condition" -> RangesIn(e.left) \cup RangesIn(e.right)
    [] e.type = "FunctionCall" -> UNION { RangesIn(e.arguments[i]) : i \in DOMAIN e.arguments }
    [] e.type = "Subquery" -> RangesOf(e.stmt)
    [] OTHER -> {}

RangesOf(stmt) ==
  {statement_get_range(stmt)}
  \cup
  CASE stmt.type = "Pipe" -> RangesOf(stmt.left) \cup RangesOf(stmt.right)
    [] stmt.type = "Select" ->
         UNION { {select_expression_get_range(stmt.expressions[i])} \cup RangesIn(stmt.expressions[i].expression)
                 : i \in DOMAIN stmt.expressions }
         \cup (IF IsSome(stmt.from) THEN {from_get_range(Unwrap(stmt.from))} ELSE {})
    [] stmt.type = "Join" -> RangesIn(stmt.on)
    [] stmt.type = "Where" -> RangesIn(stmt.condition)
    [] stmt.type = "GroupBy" -> UNION { RangesIn(stmt.columns[i]) : i \in DOMAIN stmt.columns }
    [] stmt.type = "Order" ->
         UNION { {order_column_get_range(stmt.columns[i])} \cup RangesIn(stmt.columns[i].column)
                 : i \in DOMAIN stmt.columns }
    [] stmt.type = "Aggregate" -> RangesIn(stmt.argument)
    [] stmt.type = "Limit" ->
         {stmt.count.range} \cup (IF IsSome(stmt.offset) THEN {Unwrap(stmt.offset).range} ELSE {})
    [] OTHER -> {}

\* The ranges of the nodes of the program parse() returned.
ProgramRanges ==
  IF IsSome(program) THEN UNION { RangesOf(Unwrap(program)[i]) : i \in DOMAIN Unwrap(program) } ELSE {}

\* The tokens of the source, up to its EOF or to the lexical error.
RECURSIVE TokensFrom(_)
TokensFrom(lx) ==
  LET r == next_token(lx)
  IN  IF r.st # "ok" THEN <<>>
      ELSE IF r.v.kind = "EOF" THEN <<r.v>>
      ELSE <<r.v>> \o TokensFrom(r.lx)

SourceTokens == TokensFrom(LexerNew(source))

\* C25: every Range the front end produces has start <= end: the range of
\* every token, and the range get_range() returns for every node the parser
\* built, a table-qualified column a.b, a select expression with an alias
\* and a JOIN clause among them.
C25_AsStated ==
  /\ \A i \in DOMAIN SourceTokens : SourceTokens[i].range.start <= SourceTokens[i].range.end
  /\ \A range \in ProgramRanges : range.start <= range.end

\* Files that are one production from their first to their last character.
WholeProductions ==
  { "SELECT name FROM users", "SELECT a", "SELECT a, b FROM t", "FROM users", "JOIN t ON a = b",
    "WHERE a = 'q'", "GROUP BY dept", "ORDER BY name", "ORDER BY name DESC", "LIMIT 10",
    "LIMIT 10, 5", "AGGREGATE COUNT(x)", "AGGREGATE COUNT(x) AS n",
    "AGGREGATE COUNT((SELECT a FROM t))" }

\* C26: the range of the node of a production starts at the start of the
\* first token the production consumed and ends at the end of the last
\* one: an AGGREGATE clause through its closing parenthesis or its alias,
\* a function call from its name through its closing parenthesis, an
\* ORDER BY clause through a trailing DESC, a subquery from its opening
\* through its closing parenthesis.
C26_AsStated ==
  /\ \A text \in WholeProductions :
       Parsed(text) =>
         /\ IsSome(program)
         /\ Len(Unwrap(program)) = 1
         /\ OnlyStatement.range = Range(0, Len(text))
  /\ Parsed("SELECT f(x) FROM t") =>
       /\ IsSome(program)
       /\ OnlyStatement.expressions[1].expression.type = "FunctionCall"
       /\ OnlyStatement.expressions[1].expression.range = Range(7, 11)
       /\ expression_get_range(OnlyStatement.expressions[1].expression) = Range(7, 11)
  /\ Parsed("AGGREGATE COUNT((SELECT a FROM t))") =>
       /\ IsSome(program)
       /\ OnlyStatement.argument.type = "Subquery"
       /\ expression_get_range(OnlyStatement.argument) = Range(16, 33)

(***************************************************************************)
(* Properties of the diagnostics of the checker.                           *)
(***************************************************************************)
\* C27: every diagnostic the checker adds carries a range with
\* 0 <= start <= end <= the length of the source text, for every rule, so
\* that the excerpt of the source from start to end that the reporter is
\* handed is well defined.
C27_AsStated ==
  /\ \A k \in DOMAIN diagnostics :
       /\ 0 <= diagnostics[k].range.start
       /\ diagnostics[k].range.start <= diagnostics[k].range.end
       /\ diagnostics[k].range.end <= Len(source)
  /\ \A i \in DOMAIN stdout :
       stdout[i].banner = "WARNING >>>" =>
         /\ 0 <= stdout[i].start
         /\ stdout[i].start <= stdout[i].end
         /\ stdout[i].end <= Len(source)

(***************************************************************************)
(* Properties of progress.                                                 *)
(***************************************************************************)
\* The lexer after n calls of next_token.
RECURSIVE LexerAfter(_, _)
LexerAfter(lx, n) ==
  IF n = 0 THEN lx
  ELSE LET r == next_token(lx)
       IN  IF r.st = "ok" THEN LexerAfter(r.lx, n - 1) ELSE lx

\* Where the next token the lexer hands out starts.
Position(lx) ==
  IF IsSome(lx.cached) THEN Unwrap(lx.cached).range.start ELSE skip_whitespace(lx).cursor

\* The bodies of the loops of the parser: of the statements of a program
\* and of a subquery, of the stages of a pipe chain, of a select list, of
\* the arguments of a function, of the GROUP BY and of the ORDER BY columns.
LoopBodies ==
  { "parse_statement", "parse_primary_statement", "parse_select_expression", "parse_expression",
    "parse_column_expression", "parse_order_column" }

\* C28: lexing and parsing end on every input.  Every token but EOF has a
\* non-empty range and moves the cursor on; once EOF is returned,
\* next_token and peek_token return EOF again; the body of every loop of
\* the parser, started at any token of the text, consumes at least one
\* token or ends the process; and parse() returns a Program or stops with
\* a fatal error, which prints one diagnostic and exits with 1.
C28_AsStated ==
  /\ \A i \in DOMAIN SourceTokens :
       /\ SourceTokens[i].kind # "EOF" => SourceTokens[i].range.start < SourceTokens[i].range.end
       /\ i > 1 => SourceTokens[i - 1].range.end <= SourceTokens[i].range.start
       /\ i > 1 => Position(LexerAfter(LexerNew(source), i - 1)) > Position(LexerAfter(LexerNew(source), i - 2))
  /\ LET n    == Len(SourceTokens)
         done == LexerAfter(LexerNew(source), n)
     IN  (n > 0 /\ SourceTokens[n].kind = "EOF") =>
           /\ next_token(done).v = SourceTokens[n]
           /\ peek_token(done).v = SourceTokens[n]
           /\ next_token(peek_token(next_token(done).lx).lx).v = SourceTokens[n]
  /\ \A k \in 0..Len(SourceTokens) : \A method \in LoopBodies :
       \A lx \in {LexerAfter(LexerNew(source), k), peek_token(LexerAfter(LexerNew(source), k)).lx} :
         LET r == call(method, lx)
         IN  /\ r.st \in {"ok", "fatal", "panic"}
             /\ r.st = "ok" => Position(r.lx) > Position(lx)
  /\ pc # "parse" =>
       \/ IsSome(program)
       \/ /\ exit_code = Some(1)
          /\ Len(stdout) = 1
          /\ stdout[1].banner = "ERROR >>>"

\* The stage introduces this table: a FROM stage of it, or a SELECT with an
\* inline FROM of it.
Introduces(stage, table) ==
  \/ stage.type = "From" /\ stage.table.lexeme = table
  \/ stage.type = "Select" /\ IsSome(stage.from) /\ Unwrap(stage.from).table.lexeme = table

\* C29: the table of the inline FROM of a SELECT counts as introduced for
\* the rest of the run, as the table of a FROM stage does: it is in the
\* set of tables once the SELECT was visited, a later JOIN of it gets no
\* join-table Warning, and a later FROM of it gets the duplicate-table
\* Warning.
C29_AsStated ==
  LET stages == StagesOf(Visited)
  IN  \A i \in DOMAIN stages :
        LET named == \E j \in 1..(i - 1) : Introduces(stages[j], stages[i].table.lexeme)
        IN  /\ (stages[i].type = "Select" /\ IsSome(stages[i].from)) =>
                 VecContains(tables, Unwrap(Unwrap(stages[i].from).table.lexeme))
            /\ stages[i].type = "Join" =>
                 (Held("missing index on join", "Warning", join_get_range(stages[i])) <=> ~named)
            /\ stages[i].type = "From" =>
                 (Held("duplicate column", "Warning", from_get_range(stages[i])) <=> named)

\* The Column is the reference table.column of these two names.
IsQualified(col, table, column) ==
  /\ col.type = "Column"
  /\ col.table # None
  /\ Unwrap(col.table).lexeme = Some(table)
  /\ col.column.lexeme = Some(column)

\* C30: of a dotted reference a.b the parser makes a Column whose table
\* qualifier is the first identifier and whose column is the second, in a
\* general expression as in the column positions of JOIN, GROUP BY and
\* ORDER BY; so the name the duplicate-column rule of the checker uses for
\* a.b is b.
C30_AsStated ==
  /\ \A col \in ProgramColumns :
       IsSome(col.table) => Unwrap(col.table).range.end < col.column.range.start
  /\ (Parsed("SELECT users.id FROM users") /\ IsSome(program)) =>
       IsQualified(OnlyStatement.expressions[1].expression, "users", "id")
  /\ (Parsed("WHERE a.b = 1") /\ IsSome(program)) =>
       IsQualified(OnlyStatement.condition.left, "a", "b")
  /\ (Parsed("JOIN t ON a.b = c.d") /\ IsSome(program)) =>
       IsQualified(OnlyStatement.on.left, "a", "b") /\ IsQualified(OnlyStatement.on.right, "c", "d")
  /\ (Parsed("GROUP BY a.b") /\ IsSome(program)) =>
       IsQualified(OnlyStatement.columns[1], "a", "b")
  /\ (Parsed("ORDER BY a.b DESC") /\ IsSome(program)) =>
       IsQualified(OnlyStatement.columns[1].column, "a", "b")
  /\ (Parsed("SELECT t.a, t.b FROM t") /\ Checked) =>
       columns = <<"a", "b">> /\ diagnostics = <<>>
  /\ (Parsed("SELECT a.id, b.id FROM a") /\ Checked) =>
       /\ columns = <<"id">>
       /\ [k \in DOMAIN diagnostics |-> diagnostics[k].message] = <<"duplicate column">>
====
